---- MODULE Spec2Model ----
(***************************************************************************)
(* Model of the audio-analyzer library: the output parsers of              *)
(* src/src/analyzer.rs over line-structured probe text, the per-file       *)
(* fan-out/join of analyze_file and the batch coordinator analyze_files    *)
(* running on a work-stealing pool.                                        *)
(***************************************************************************)
EXTENDS Integers, Sequences, FiniteSets, TLC

\* ------------------------------------------------------------------------
\* Bounds of the model
\* ------------------------------------------------------------------------
\* longest probe text, in lines
MaxLines == 4
\* longest input path list of analyze_files
MaxFiles == 2
\* worker threads of the global pool (the machine's available parallelism)
PoolSize == 2
\* largest value of config.num_threads
MaxThreads == 1
\* longest file name, in characters
MaxName == 4
\* most entries of one directory
MaxEntries == 3
\* calls made on one analyzer
MaxCalls == 4

\* ------------------------------------------------------------------------
\* Numbers: f64 values are kept as integers in units of 10^-Prec
\* ------------------------------------------------------------------------
Prec == 3

RECURSIVE Pow10(_)
Pow10(n) == IF n = 0 THEN 1 ELSE 10 * Pow10(n - 1)

AsciiDigits == {"0", "1", "2", "3", "4", "5", "6", "7", "8", "9"}

\* a decimal digit outside ASCII (Unicode class Nd): matched by \d, never by
\* [0-9], never accepted by str::parse::<f64>
UniDigit == "u"

DigitVal(c) ==
  CASE c = "0" -> 0 [] c = "1" -> 1 [] c = "2" -> 2 [] c = "3" -> 3
    [] c = "4" -> 4 [] c = "5" -> 5 [] c = "6" -> 6 [] c = "7" -> 7
    [] c = "8" -> 8 [] c = "9" -> 9

RECURSIVE DigitsVal(_)
DigitsVal(s) ==
  IF s = <<>> THEN 0
  ELSE 10 * DigitsVal(SubSeq(s, 1, Len(s) - 1)) + DigitVal(s[Len(s)])

None == [ok |-> FALSE, v |-> 0]
Some(x) == [ok |-> TRUE, v |-> x]

\* str::parse::<f64> on a token of characters: optional sign, digits with at
\* most one point and at least one digit
ParseF64(tok) ==
  LET neg == tok # <<>> /\ tok[1] = "-"
      body == IF neg THEN Tail(tok) ELSE tok
      dots == {i \in 1..Len(body) : body[i] = "."}
      wellFormed == /\ body # <<>>
                    /\ \A i \in 1..Len(body) : body[i] \in AsciiDigits \cup {"."}
                    /\ Cardinality(dots) <= 1
                    /\ \E i \in 1..Len(body) : body[i] \in AsciiDigits
      dot == IF dots = {} THEN Len(body) + 1 ELSE CHOOSE i \in dots : TRUE
      ip == SubSeq(body, 1, dot - 1)
      fp == SubSeq(body, dot + 1, Len(body))
      fpc == IF Len(fp) > Prec THEN SubSeq(fp, 1, Prec) ELSE fp
      mag == DigitsVal(ip) * Pow10(Prec) + DigitsVal(fpc) * Pow10(Prec - Len(fpc))
  IN IF wellFormed THEN Some(IF neg THEN 0 - mag ELSE mag) ELSE None

\* ------------------------------------------------------------------------
\* Probe text: a sequence of lines.  A line is
\*   k = "LRA"  : [pre]LRA: <num> LU[post]
\*   k = "HDR"  : [pre][Parsed_astats_<n> @ 0x..] Overall
\*   k = "PEAK" : ...Peak level dB: <num>[post]
\*   k = "RMS"  : ...RMS level dB: <num>[post]
\*   k = "OTHER": any other line
\* pre / post say that other text stands before / after on the line
\* ------------------------------------------------------------------------
Line(k, pre, n, num, post) == [k |-> k, pre |-> pre, n |-> n, num |-> num, post |-> post]

OtherLine == Line("OTHER", FALSE, 0, <<>>, FALSE)

\* character classes of the capture groups
ClassLra == AsciiDigits \cup {".", "-"}
ClassStat == AsciiDigits \cup {UniDigit, ".", "-"}

AllIn(tok, class) == \A i \in 1..Len(tok) : tok[i] \in class

\* the longest prefix of tok made of characters of class (a greedy capture
\* with nothing required after it)
RECURSIVE ClassPrefix(_, _)
ClassPrefix(tok, class) ==
  IF tok = <<>> \/ tok[1] \notin class THEN <<>>
  ELSE <<tok[1]>> \o ClassPrefix(Tail(tok), class)

\* positions of a text satisfying a line predicate, and their extremes
Positions(text, P(_)) == {i \in 1..Len(text) : P(text[i])}
MinOf(S) == CHOOSE i \in S : \A j \in S : i <= j
MaxOf(S) == CHOOSE i \in S : \A j \in S : j <= i

\* EBUR128_LRA_REGEX  LRA:\s*([0-9.-]+)\s*LU
MatchLra(l) == l.k = "LRA" /\ l.num # <<>> /\ AllIn(l.num, ClassLra)

\* EBUR128_SUMMARY_LRA_REGEX  (?m)^LRA:\s*([0-9.-]+)\s*LU\s*$
MatchSummaryLra(l) == MatchLra(l) /\ ~l.pre /\ ~l.post

\* SIMPLE_PEAK_REGEX  Peak level dB:\s*([-\d.]+)
MatchSimplePeak(l) == l.k = "PEAK" /\ ClassPrefix(l.num, ClassStat) # <<>>

\* SIMPLE_RMS_REGEX  RMS level dB:\s*([-\d.]+)
MatchSimpleRms(l) == l.k = "RMS" /\ ClassPrefix(l.num, ClassStat) # <<>>

\* the header line ^\[Parsed_astats_<n> @ [^\]]+\] Overall\s*\n
MatchHeader(l, n) == l.k = "HDR" /\ l.n = n /\ ~l.pre /\ ~l.post

\* the peak line of ASTATS_OVERALL_REGEX: the capture runs to the line end
MatchPeakToEol(l) ==
  l.k = "PEAK" /\ l.num # <<>> /\ AllIn(l.num, ClassStat) /\ ~l.post

\* ASTATS_OVERALL_REGEX: leftmost header of filter 0, then lazily the first
\* peak line after it, then lazily the first RMS line after that
AstatsOverall(text) ==
  LET H == {h \in 1..Len(text) :
              /\ MatchHeader(text[h], 0)
              /\ \E p \in (h + 1)..Len(text) :
                   /\ MatchPeakToEol(text[p])
                   /\ \E r \in (p + 1)..Len(text) : MatchSimpleRms(text[r])}
  IN IF H = {} THEN [found |-> FALSE, peak |-> <<>>, rms |-> <<>>]
     ELSE LET h == MinOf(H)
              p == MinOf({q \in (h + 1)..Len(text) : MatchPeakToEol(text[q])})
              r == MinOf({q \in (p + 1)..Len(text) : MatchSimpleRms(text[q])})
          IN [found |-> TRUE, peak |-> text[p].num,
              rms |-> ClassPrefix(text[r].num, ClassStat)]

\* HIGHPASS_ASTATS_REGEX: leftmost header of filter 1, then lazily the first
\* RMS line after it
HighpassAstats(text) ==
  LET H == {h \in 1..Len(text) :
              /\ MatchHeader(text[h], 1)
              /\ \E r \in (h + 1)..Len(text) : MatchSimpleRms(text[r])}
  IN IF H = {} THEN [found |-> FALSE, rms |-> <<>>]
     ELSE LET h == MinOf(H)
              r == MinOf({q \in (h + 1)..Len(text) : MatchSimpleRms(text[q])})
          IN [found |-> TRUE, rms |-> ClassPrefix(text[r].num, ClassStat)]

\* ------------------------------------------------------------------------
\* Probe results: Result<f64> and Result<AudioStats>
\* ------------------------------------------------------------------------
OkVal(x) == [ok |-> TRUE, err |-> "none", v |-> x]
ErrVal(e) == [ok |-> FALSE, err |-> e, v |-> 0]
OkStats(p, r) == [ok |-> TRUE, err |-> "none", peak_db |-> p, rms_db |-> r]
ErrStats(e) == [ok |-> FALSE, err |-> e, peak_db |-> None, rms_db |-> None]

\* the value returned when a high-pass text holds no RMS value: -144.0
SilenceFloor == 0 - 144 * Pow10(Prec)

\* extract_lra_ebur128 taking the first of the repeated values, not the last
ParseLra_first(text) ==
  LET S == Positions(text, MatchSummaryLra)
      first == IF S = {} THEN None ELSE ParseF64(text[MinOf(S)].num)
      A == {i \in Positions(text, MatchLra) : ParseF64(text[i].num).ok}
  IN IF first.ok THEN OkVal(first.v)
     ELSE IF A # {} THEN OkVal(ParseF64(text[MinOf(A)].num).v)
     ELSE ErrVal("parse")

\* extract_lra_ebur128 after the command ran
ParseLra(text) ==
  LET S == Positions(text, MatchSummaryLra)
      first == IF S = {} THEN None ELSE ParseF64(text[MinOf(S)].num)
      A == {i \in Positions(text, MatchLra) : ParseF64(text[i].num).ok}
  IN IF first.ok THEN OkVal(first.v)
     ELSE IF A # {} THEN OkVal(ParseF64(text[MaxOf(A)].num).v)
     ELSE ErrVal("parse")

\* AudioStats::has_data
has_data(stats) == stats.peak_db.ok \/ stats.rms_db.ok

\* extract_audio_stats after the command ran
ParseStats(text) ==
  LET m == AstatsOverall(text)
      P == Positions(text, MatchSimplePeak)
      R == Positions(text, MatchSimpleRms)
      peak == IF P = {} THEN None
              ELSE ParseF64(ClassPrefix(text[MinOf(P)].num, ClassStat))
      rms == IF R = {} THEN None
             ELSE ParseF64(ClassPrefix(text[MinOf(R)].num, ClassStat))
  IN IF m.found THEN OkStats(ParseF64(m.peak), ParseF64(m.rms))
     ELSE IF peak.ok \/ rms.ok THEN OkStats(peak, rms)
     ELSE ErrStats("parse")

\* extract_highpass_rms after the command ran
ParseHighpass(text) ==
  LET m == HighpassAstats(text)
      first == IF m.found THEN ParseF64(m.rms) ELSE None
      A == {i \in Positions(text, MatchSimpleRms) :
              ParseF64(ClassPrefix(text[i].num, ClassStat)).ok}
  IN IF first.ok THEN OkVal(first.v)
     ELSE IF A # {}
       THEN OkVal(ParseF64(ClassPrefix(text[MaxOf(A)].num, ClassStat)).v)
     ELSE OkVal(SilenceFloor)

\* ------------------------------------------------------------------------
\* State
\* ------------------------------------------------------------------------
VARIABLES
  deps,             \* AudioAnalyzer.dependencies.is_some()
  num_threads,      \* config.num_threads: 0 is None, n > 0 is Some(n)
  api,              \* the library entry the client called
  tool,             \* how the external tool behaves in this run
  paths,            \* the input paths of the call
  stack,            \* per thread, the frames it is executing, innermost last
  deque,            \* per pool worker, its queue of pending join halves
  injector,         \* jobs handed to the pool from outside
  latch,            \* jobs run by another thread that have completed
  probe,            \* per input index and probe, the invocation and its result
  meta,             \* per input index, what reading the file metadata gave
  slot,             \* per input index, what the filter_map closure produced
  processed_count,  \* the shared progress counter
  count,            \* per input index, the progress number its closure obtained
  diag,             \* the diagnostics written to the error stream, in order
  ret,              \* the value returned to the client
  ptext,            \* parser check: the captured text
  pout,             \* parser check: what each extractor made of it
  flt,              \* path filter: a file name, an allow-list and the answers
  scan,             \* directory scan: the tree, the walk and the list so far
  rec,              \* a metrics record, its serialized form and what was read back
  cli,              \* the command-line pipeline after the analysis
  cmd,              \* the command lines built for the probes of one file
  cfg,              \* a configuration, its validation and the analyzer made of it
  app,              \* the command line, file and environment a configuration is made from
  ana               \* one analyzer over a sequence of calls

vars == <<deps, num_threads, api, tool, paths, stack, deque, injector, latch,
          probe, meta, slot, processed_count, count, diag, ret, ptext, pout,
          flt, scan, rec, cli, cmd, cfg, app, ana>>

\* the parts of the state that the analyzer itself never touches
side == <<flt, scan, rec, cli, cmd, cfg, app, ana>>

\* a part of the state that a run does not use
Unused == [st |-> "unused"]

\* the command line, configuration, application and analyzer parts at rest
RestUnused == cmd = Unused /\ cfg = Unused /\ app = Unused /\ ana = Unused

Main == 0
Workers == 1..PoolSize
Threads == 0..PoolSize

\* the probes of one file, in the order of the nested joins
Probes == <<"lra", "stats", "rms16k", "rms18k", "rms20k">>
NumProbes == Len(Probes)

\* the cut-off frequency passed to extract_highpass_rms by probe k
HighpassFreq(k) ==
  CASE k = 3 -> 16000 [] k = 4 -> 18000 [] k = 5 -> 20000 [] OTHER -> 0

\* ------------------------------------------------------------------------
\* Tasks and frames
\* ------------------------------------------------------------------------
Task(t, a, b, c) == [t |-> t, a |-> a, b |-> b, c |-> c]
NoTask == Task("none", 0, 0, 0)
\* the par_iter range lo..hi with its remaining split budget
BridgeTask(lo, hi, splits) == Task("bridge", lo, hi, splits)
\* an already decided split of lo..hi, handed over as one join
SplitTask(lo, hi, splits) == Task("split", lo, hi, splits)
\* the join, for input i, of probe k with the rest of the fan-out
FanTask(i, k) == Task("fan", i, k, 0)

Frame(t, a, b, c, ph, inj, job, own) ==
  [t |-> t, a |-> a, b |-> b, c |-> c, ph |-> ph, inj |-> inj, job |-> job, own |-> own]

\* the frame that starts executing a task; own is the job whose latch the
\* frame sets when it returns
TaskFrame(task, migrated, own) ==
  Frame(task.t, task.a, task.b, task.c,
        IF migrated THEN "stolen" ELSE "fresh", FALSE, NoTask, own)

SetTop(s, f) == [s EXCEPT ![Len(s)] = f]
Pop(s) == SubSeq(s, 1, Len(s) - 1)
Last(s) == s[Len(s)]

\* ------------------------------------------------------------------------
\* The external tool
\* ------------------------------------------------------------------------
Tok_5_0 == <<"5", ".", "0">>
Tok_7_2 == <<"7", ".", "2">>
Tok_9_9 == <<"9", ".", "9">>
Tok_m1_5 == <<"-", "1", ".", "5">>
Tok_m0_3 == <<"-", "0", ".", "3">>
Tok_m20_1 == <<"-", "2", "0", ".", "1">>
Tok_m18 == <<"-", "1", "8">>
Tok_m70 == <<"-", "7", "0">>
Tok_m80 == <<"-", "8", "0">>
Tok_m90 == <<"-", "9", "0">>
\* matched by every capture class, not a number
Tok_dash_dot == <<"-", ".">>
\* a number followed by a character outside every class
Tok_m2x == <<"-", "2", "x">>
\* matched by \d only, not a number
Tok_m9u == <<"-", "9", UniDigit>>

\* what the tool prints for a readable audio file, by probe
ToolText(k) ==
  CASE k = 1 -> <<Line("LRA", TRUE, 0, Tok_5_0, FALSE), Line("LRA", TRUE, 0, Tok_9_9, FALSE)>>
    [] k = 2 -> <<Line("HDR", FALSE, 0, <<>>, FALSE), Line("PEAK", FALSE, 0, Tok_m1_5, FALSE),
                  Line("RMS", FALSE, 0, Tok_m20_1, FALSE)>>
    [] k = 3 -> <<Line("HDR", FALSE, 1, <<>>, FALSE), Line("RMS", FALSE, 0, Tok_m70, FALSE)>>
    [] k = 4 -> <<Line("HDR", FALSE, 1, <<>>, FALSE), Line("RMS", FALSE, 0, Tok_m80, FALSE)>>
    [] k = 5 -> <<Line("HDR", FALSE, 1, <<>>, FALSE), Line("RMS", FALSE, 0, Tok_m90, FALSE)>>

\* what the tool prints when it gives up on the input: no metric line
ToolErrorText == <<OtherLine>>

\* a per-channel peak line only, no Overall block and no RMS line
ToolPeakOnlyText == <<Line("PEAK", FALSE, 0, Tok_m0_3, FALSE)>>

Outcome(exit, text) == [exit |-> exit, text |-> text]

\* the exits of the process of probe k when the tool is free to misbehave
AnyOutcomes(k) ==
  {Outcome("zero", ToolText(k)), Outcome("nonzero", ToolErrorText)}
    \cup (IF k = 2 THEN {Outcome("zero", ToolPeakOnlyText)}
          ELSE IF k >= 3 THEN {Outcome("zero", <<>>)}
          ELSE {})

\* the exits of the process of probe k that the run can show; a silent band
\* leaves the error stream of a high-pass probe without any value
Outcomes(k) ==
  IF tool = "healthy" THEN {Outcome("zero", ToolText(k))}
  ELSE AnyOutcomes(k)

\* ------------------------------------------------------------------------
\* Records
\* ------------------------------------------------------------------------
ProbeIdle ==
  [st |-> "idle", overdue |-> FALSE, exit |-> "none", text |-> <<>>,
   res |-> ErrVal("pending"), stats |-> ErrStats("pending")]

\* the size fs::metadata reports for a path
FileSizeBytes(path) == 1024 * path

\* AudioMetrics::new
AudioMetrics_new(file_path, file_size_bytes) ==
  [file_path |-> file_path, file_size_bytes |-> file_size_bytes,
   lra |-> None, peak_amplitude_db |-> None, overall_rms_db |-> None,
   rms_db_above_16k |-> None, rms_db_above_18k |-> None,
   rms_db_above_20k |-> None, processing_time_ms |-> 0]

\* completeness asking for every optional field
is_complete_all(m) ==
  /\ m.lra.ok /\ m.peak_amplitude_db.ok /\ m.overall_rms_db.ok
  /\ m.rms_db_above_16k.ok /\ m.rms_db_above_18k.ok /\ m.rms_db_above_20k.ok

\* AudioMetrics::is_complete
is_complete(m) == m.lra.ok /\ m.peak_amplitude_db.ok /\ m.rms_db_above_18k.ok

\* Result::ok
ResultOk(r) == IF r.ok THEN Some(r.v) ELSE None

\* the timer of analyze_file, in units of one process run
ElapsedMs(pr) == Cardinality({k \in 1..NumProbes : pr[k].exit \in {"zero", "nonzero"}})

\* analyze_file filling the peak/RMS pair only when the loudness-range probe
\* succeeded as well
BuildMetrics_pair(path, pr) ==
  LET m0 == AudioMetrics_new(path, FileSizeBytes(path))
      st == pr[2].stats
      both == st.ok /\ pr[1].res.ok
  IN [m0 EXCEPT
        !.lra = ResultOk(pr[1].res),
        !.peak_amplitude_db = IF both THEN st.peak_db ELSE None,
        !.overall_rms_db = IF both THEN st.rms_db ELSE None,
        !.rms_db_above_16k = ResultOk(pr[3].res),
        !.rms_db_above_18k = ResultOk(pr[4].res),
        !.rms_db_above_20k = ResultOk(pr[5].res),
        !.processing_time_ms = ElapsedMs(pr)]

\* the record analyze_file builds for a path from the joined results pr of
\* its five probe invocations
BuildMetrics(path, pr) ==
  LET m0 == AudioMetrics_new(path, FileSizeBytes(path))
      st == pr[2].stats
  IN [m0 EXCEPT
        !.lra = ResultOk(pr[1].res),
        !.peak_amplitude_db = IF st.ok THEN st.peak_db ELSE None,
        !.overall_rms_db = IF st.ok THEN st.rms_db ELSE None,
        !.rms_db_above_16k = ResultOk(pr[3].res),
        !.rms_db_above_18k = ResultOk(pr[4].res),
        !.rms_db_above_20k = ResultOk(pr[5].res),
        !.processing_time_ms = ElapsedMs(pr)]

NoMetrics == AudioMetrics_new(0, 0)
SlotEmpty == [st |-> "empty", m |-> NoMetrics]
SlotNone == [st |-> "none", m |-> NoMetrics]
SlotSome(m) == [st |-> "some", m |-> m]

\* the records of slots lo..hi gathered from the last slot to the first
RECURSIVE Collect_backwards(_, _, _)
Collect_backwards(sl, lo, hi) ==
  IF lo > hi THEN <<>>
  ELSE (IF sl[hi].st = "some" THEN <<sl[hi].m>> ELSE <<>>) \o Collect_backwards(sl, lo, hi - 1)

\* the records of slots lo..hi that hold one, in index order
RECURSIVE Collect(_, _, _)
Collect(sl, lo, hi) ==
  IF lo > hi THEN <<>>
  ELSE (IF sl[lo].st = "some" THEN <<sl[lo].m>> ELSE <<>>) \o Collect(sl, lo + 1, hi)

Diag(path, kind, detail) == [path |-> path, kind |-> kind, detail |-> detail]

RetPending == [st |-> "pending", recs |-> <<>>, err |-> "none"]
RetOk(recs) == [st |-> "ok", recs |-> recs, err |-> "none"]
RetErr(e) == [st |-> "err", recs |-> <<>>, err |-> e]

\* AnalyzerConfig::effective_thread_count; num_cpus::get is the pool size
effective_thread_count == IF num_threads # 0 THEN num_threads ELSE PoolSize

\* ------------------------------------------------------------------------
\* Initial states
\* ------------------------------------------------------------------------
PoutIdle == [st |-> "idle", res |-> ErrVal("pending"), stats |-> ErrStats("pending")]
NoText == [kind |-> "none", text |-> <<>>]

InitRun ==
  /\ injector = <<>>
  /\ latch = {}
  /\ probe = [i \in 1..Len(paths) |-> [k \in 1..NumProbes |-> ProbeIdle]]
  /\ meta = [i \in 1..Len(paths) |-> "unread"]
  /\ slot = [i \in 1..Len(paths) |-> SlotEmpty]
  /\ processed_count = 0
  /\ count = [i \in 1..Len(paths) |-> 0]
  /\ diag = <<>>
  /\ ret = RetPending
  /\ flt = Unused
  /\ scan = Unused
  /\ rec = Unused
  /\ cli = Unused
  /\ RestUnused

\* a client calls analyze_files on a list of up to MaxFiles paths, the pool
\* having one to PoolSize workers
Init ==
  /\ deps \in BOOLEAN
  /\ num_threads \in 0..MaxThreads
  /\ api = "analyze_files"
  /\ tool \in {"healthy", "missing"}
  /\ paths \in {[i \in 1..n |-> i] : n \in 0..MaxFiles}
  /\ stack = [w \in Threads |->
                IF w = Main
                THEN <<Frame("batch", 0, 0, 0, "enter", FALSE, NoTask, NoTask)>>
                ELSE <<>>]
  /\ deque \in {[w \in 1..n |-> <<>>] : n \in 1..PoolSize}
  /\ InitRun
  /\ ptext = NoText
  /\ pout = PoutIdle

\* a client calls analyze_file on one path, the tool free to misbehave
InitFile ==
  /\ deps \in BOOLEAN
  /\ num_threads = 0
  /\ api = "analyze_file"
  /\ tool = "any"
  /\ paths = <<1>>
  /\ stack = [w \in Threads |->
                IF w = Main
                THEN <<Frame("file", 1, 0, 0, "open", FALSE, NoTask, NoTask)>>
                ELSE <<>>]
  /\ deque = [w \in Workers |-> <<>>]
  /\ InitRun
  /\ ptext = NoText
  /\ pout = PoutIdle

\* ------------------------------------------------------------------------
\* The run state.  Threads are interleaved at the points where they meet the
\* world outside their own stack: a metadata read, a process spawn, a process
\* exit, taking a job from a queue.  The steps between two such points are the
\* operators below, from run state to run state; Settle chains them.
\* ------------------------------------------------------------------------
Cur ==
  [stack |-> stack, deque |-> deque, injector |-> injector, latch |-> latch,
   probe |-> probe, meta |-> meta, slot |-> slot,
   processed_count |-> processed_count, count |-> count, diag |-> diag,
   ret |-> ret]

\* the run state S, worked out once, becomes the next state
Apply(S) ==
  \E T \in {S} :
  /\ stack' = T.stack
  /\ deque' = T.deque
  /\ injector' = T.injector
  /\ latch' = T.latch
  /\ probe' = T.probe
  /\ meta' = T.meta
  /\ slot' = T.slot
  /\ processed_count' = T.processed_count
  /\ count' = T.count
  /\ diag' = T.diag
  /\ ret' = T.ret
  /\ UNCHANGED <<deps, num_threads, api, tool, paths, ptext, pout, side>>

Top(S, w) == Last(S.stack[w])
At(S, w, t, ph) == S.stack[w] # <<>> /\ Top(S, w).t = t /\ Top(S, w).ph = ph

\* a frame that returns without setting the latch of its job
Return_unlatched(S, w) == [S EXCEPT !.stack[w] = Pop(@)]

\* the top frame of w returns: it leaves the stack and, when it was run on
\* behalf of another thread, sets the latch of its job
Return(S, w) ==
  [S EXCEPT !.stack[w] = Pop(@),
            !.latch = IF Top(S, w).own # NoTask THEN @ \cup {Top(S, w).own} ELSE @]

\* a join or an outside caller that waited for a job returns: the latch of
\* the job goes away with the frame that held it
ReturnWaited(S, w) ==
  Return([S EXCEPT !.latch = @ \ {Top(S, w).job}], w)

\* rayon::current_num_threads: the pool has one queue for each worker
current_num_threads(S) == Len(S.deque)

\* analyze_files treating an empty list as analyze_directory does: an error
AnalyzeFilesEnter_err(S) ==
  IF paths = <<>>
  THEN [S EXCEPT !.stack[Main] = <<>>, !.ret = RetErr("other")]
  ELSE [S EXCEPT !.stack[Main] =
          <<Frame("batch", 0, 0, 0, "collect", FALSE, NoTask, NoTask),
            TaskFrame(BridgeTask(1, Len(paths), current_num_threads(S)), FALSE, NoTask)>>]

\* analyze_files: the empty check, then the parallel iterator over the paths
AnalyzeFilesEnter(S) ==
  IF paths = <<>>
  THEN [S EXCEPT !.stack[Main] = <<>>, !.ret = RetOk(<<>>)]
  ELSE [S EXCEPT !.stack[Main] =
          <<Frame("batch", 0, 0, 0, "collect", FALSE, NoTask, NoTask),
            TaskFrame(BridgeTask(1, Len(paths), current_num_threads(S)), FALSE, NoTask)>>]

\* analyze_files after the parallel iterator: collect and return Ok
AnalyzeFilesReturn(S) ==
  [S EXCEPT !.stack[Main] = <<>>,
            !.ret = RetOk(Collect(S.slot, 1, Len(paths)))]

\* the splitter of the parallel iterator: whether the range held by frame f
\* is split into two joined halves or folded sequentially
BridgeSplits(f) ==
  LET len == f.b - f.a + 1
  IN len \div 2 >= 1 /\ (f.ph = "stolen" \/ f.c > 0)

BridgeBudget(S, f) ==
  IF f.ph = "stolen"
  THEN (IF current_num_threads(S) > f.c \div 2 THEN current_num_threads(S)
        ELSE f.c \div 2)
  ELSE f.c \div 2

BridgeMid(lo, hi) == lo + ((hi - lo + 1) \div 2)

\* a caller outside the pool hands a decided split to the pool and blocks
BridgeStep(S, w) ==
  LET f == Top(S, w)
      s == BridgeBudget(S, f)
      mid == BridgeMid(f.a, f.b)
  IN IF ~BridgeSplits(f)
     THEN [S EXCEPT !.stack[w] = SetTop(@,
             Frame("fold", f.a, f.b, 0, "run", FALSE, NoTask, f.own))]
     ELSE IF w = Main
     THEN [S EXCEPT !.injector = Append(@, SplitTask(f.a, f.b, s)),
                    !.stack[w] = SetTop(@,
                       Frame("cold", 0, 0, 0, "wait", FALSE, SplitTask(f.a, f.b, s), f.own))]
     ELSE [S EXCEPT !.deque[w] = Append(@, BridgeTask(mid, f.b, s)),
                    !.stack[w] = Pop(@) \o
                       <<Frame("join", 0, 0, 0, "A", FALSE, BridgeTask(mid, f.b, s), f.own),
                         TaskFrame(BridgeTask(f.a, mid - 1, s), FALSE, NoTask)>>]

\* a worker runs a split that was decided outside the pool: both halves are
\* told that they migrated
SplitStep(S, w) ==
  LET f == Top(S, w)
      mid == BridgeMid(f.a, f.b)
  IN [S EXCEPT !.deque[w] = Append(@, BridgeTask(mid, f.b, f.c)),
               !.stack[w] = Pop(@) \o
                  <<Frame("join", 0, 0, 0, "A", TRUE, BridgeTask(mid, f.b, f.c), f.own),
                    TaskFrame(BridgeTask(f.a, mid - 1, f.c), TRUE, NoTask)>>]

\* the sequential fold of a range: the closure of filter_map on the next path
FoldStep(S, w) ==
  LET f == Top(S, w)
  IN IF f.a > f.b
     THEN Return(S, w)
     ELSE [S EXCEPT !.stack[w] = SetTop(@, [f EXCEPT !.a = f.a + 1]) \o
             <<Frame("file", f.a, 0, 0, "count", FALSE, NoTask, NoTask)>>]

\* the counter read and written back in two steps: the closure takes the
\* value it read plus one, and the increment of a closure that another
\* thread runs meanwhile is lost
FileCount_load_store(S, w) ==
  LET OthersInFile ==
        \E v \in Threads \ {w} :
          \E k \in 1..Len(S.stack[v]) : S.stack[v][k].t = "file"
      seen == IF OthersInFile /\ S.processed_count > 0
              THEN S.processed_count - 1 ELSE S.processed_count
  IN [S EXCEPT !.processed_count = seen + 1,
               !.count[Top(S, w).a] = seen + 1,
               !.stack[w] = SetTop(@, [Top(S, w) EXCEPT !.ph = "open"])]

\* let count = processed_count.fetch_add(1, SeqCst) + 1, and the progress line
FileCount(S, w) ==
  [S EXCEPT !.processed_count = @ + 1,
            !.count[Top(S, w).a] = S.processed_count + 1,
            !.stack[w] = SetTop(@, [Top(S, w) EXCEPT !.ph = "open"])]

\* the closure of analyze_files passing the error on instead of printing it
FileFails_propagate(S, w, i, e) ==
  Return([S EXCEPT !.ret = RetErr(e), !.slot[i] = SlotNone], w)

\* analyze_file going on with a size of 0 when the size cannot be had
FileFails_swallow(S, w, i, e) ==
  IF api = "analyze_file"
  THEN Return([S EXCEPT !.ret = RetOk(<<AudioMetrics_new(paths[i], 0)>>)], w)
  ELSE Return([S EXCEPT !.slot[i] = SlotSome(AudioMetrics_new(paths[i], 0))], w)

\* the closure of analyze_files yielding None without printing the error
FileFails_silent(S, w, i, e) ==
  IF api = "analyze_file"
  THEN Return([S EXCEPT !.ret = RetErr(e)], w)
  ELSE Return([S EXCEPT !.slot[i] = SlotNone], w)

\* analyze_file returned Err(e) for input i: the direct caller receives it,
\* the closure of analyze_files prints it and yields None
FileFails(S, w, i, e) ==
  IF api = "analyze_file"
  THEN Return([S EXCEPT !.ret = RetErr(e)], w)
  ELSE Return([S EXCEPT !.diag = Append(@, Diag(paths[i], "file", e)),
                        !.slot[i] = SlotNone], w)

\* analyze_file after get_file_size: the nested joins begin; a caller outside
\* the pool hands the outermost join to the pool and blocks
FanOut(S, w) ==
  LET i == Top(S, w).a
      f == [Top(S, w) EXCEPT !.ph = "build"]
  IN IF w = Main
     THEN [S EXCEPT !.injector = Append(@, FanTask(i, 1)),
                    !.stack[w] = SetTop(@, f) \o
                       <<Frame("cold", 0, 0, 0, "wait", FALSE, FanTask(i, 1), NoTask)>>]
     ELSE [S EXCEPT !.stack[w] = SetTop(@, f) \o
                       <<TaskFrame(FanTask(i, 1), FALSE, NoTask)>>]

\* the rest queued as a detached task instead of being joined: the caller
\* goes on as soon as its own probe has returned
FanStep_detached(S, w) ==
  LET f == Top(S, w)
      i == f.a
      k == f.b
  IN IF k < NumProbes
     THEN [S EXCEPT !.deque[w] = Append(@, FanTask(i, k + 1)),
                    !.stack[w] = SetTop(@,
                       Frame("probe", i, k, 0, "spawn", FALSE, NoTask, f.own))]
     ELSE [S EXCEPT !.stack[w] = SetTop(@,
             Frame("probe", i, k, 0, "spawn", FALSE, NoTask, f.own))]

\* rayon::join(probe k, rest): the rest is queued, the probe runs inline; the
\* innermost closure is the last probe itself
FanStep(S, w) ==
  LET f == Top(S, w)
      i == f.a
      k == f.b
  IN IF k < NumProbes
     THEN [S EXCEPT !.deque[w] = Append(@, FanTask(i, k + 1)),
                    !.stack[w] = Pop(@) \o
                       <<Frame("join", 0, 0, 0, "A", FALSE, FanTask(i, k + 1), f.own),
                         Frame("probe", i, k, 0, "spawn", FALSE, NoTask, NoTask)>>]
     ELSE [S EXCEPT !.stack[w] = SetTop(@,
             Frame("probe", i, k, 0, "spawn", FALSE, NoTask, f.own))]

\* rayon::join after its first closure returned: the second one is run inline
\* when it is still the newest entry of the own queue, otherwise another
\* thread has taken it and the join waits for its latch
JoinAfterA(S, w) ==
  LET f == Top(S, w)
  IN IF S.deque[w] # <<>> /\ Last(S.deque[w]) = f.job
     THEN [S EXCEPT !.deque[w] = Pop(@),
                    !.stack[w] = SetTop(@, [f EXCEPT !.ph = "B"]) \o
                       <<TaskFrame(f.job, f.inj, NoTask)>>]
     ELSE [S EXCEPT !.stack[w] = SetTop(@, [f EXCEPT !.ph = "wait"])]

\* a join that does not wait for a stolen closure
JoinReady_race(S, f) == f.ph \in {"B", "wait"}

\* rayon::join returns once both closures are done
JoinReady(S, f) == f.ph = "B" \/ (f.ph = "wait" /\ f.job \in S.latch)

\* analyze_file after the joins: the record is created and filled
FileBuild(S, w) ==
  LET i == Top(S, w).a
      m == BuildMetrics(paths[i], S.probe[i])
  IN IF api = "analyze_file"
     THEN Return([S EXCEPT !.ret = RetOk(<<m>>)], w)
     ELSE Return([S EXCEPT !.slot[i] = SlotSome(m)], w)

\* what extract_* makes of the captured text, by probe
ProbeParsed(k, text) ==
  [res |-> IF k = 1 THEN ParseLra(text)
           ELSE IF k = 2 THEN ErrVal("n/a")
           ELSE ParseHighpass(text),
   stats |-> IF k = 2 THEN ParseStats(text) ELSE ErrStats("n/a")]

ProbeFailed(k, e) ==
  [res |-> IF k = 2 THEN ErrVal("n/a") ELSE ErrVal(e),
   stats |-> IF k = 2 THEN ErrStats(e) ELSE ErrStats("n/a")]

\* run_command_capture_stderr: what the probe returns when the process ended
\* with the given exit and error-stream text; the exit status is not looked at
ProbeDone(k, exit, text) ==
  LET r == ProbeParsed(k, text)
  IN [st |-> "done", overdue |-> FALSE, exit |-> exit, text |-> text,
      res |-> r.res, stats |-> r.stats]

\* run_command_capture_stderr: Command::output cannot start the process and
\* the probe returns the I/O error
ProbeNotSpawned(k) ==
  LET r == ProbeFailed(k, "io")
  IN [st |-> "done", overdue |-> FALSE, exit |-> "nospawn", text |-> <<>>,
      res |-> r.res, stats |-> r.stats]

\* Command::output starts the process and blocks until it exits
Spawned(S, w) ==
  LET f == Top(S, w)
  IN [S EXCEPT !.probe[f.a][f.b].st = "running",
               !.stack[w] = SetTop(@, [f EXCEPT !.ph = "wait"])]

\* Command::output fails: the probe returns the error
NotSpawned(S, w) ==
  LET f == Top(S, w)
  IN Return([S EXCEPT !.probe[f.a][f.b] = ProbeNotSpawned(f.b)], w)

\* thread w can take a step on its own
Runnable(S, w) ==
  /\ S.stack[w] # <<>>
  /\ LET f == Top(S, w)
     IN \/ f.t \in {"batch", "bridge", "split", "fold", "fan"}
        \/ f.t = "file" /\ f.ph = "build"
        \/ f.t = "join" /\ (f.ph = "A" \/ JoinReady(S, f))
        \/ f.t = "cold" /\ f.job \in S.latch
        \/ f.t = "probe" /\ f.ph = "spawn" /\ tool \in {"healthy", "missing"}

Step(S, w) ==
  LET f == Top(S, w)
  IN CASE f.t = "batch" /\ f.ph = "enter" -> AnalyzeFilesEnter(S)
       [] f.t = "batch" /\ f.ph = "collect" -> AnalyzeFilesReturn(S)
       [] f.t = "bridge" -> BridgeStep(S, w)
       [] f.t = "split" -> SplitStep(S, w)
       [] f.t = "fold" -> FoldStep(S, w)
       [] f.t = "file" /\ f.ph = "build" -> FileBuild(S, w)
       [] f.t = "fan" -> FanStep(S, w)
       [] f.t = "join" /\ f.ph = "A" -> JoinAfterA(S, w)
       [] f.t = "join" /\ f.ph = "B" -> Return(S, w)
       [] f.t = "probe" /\ tool = "healthy" -> Spawned(S, w)
       [] f.t = "probe" /\ tool = "missing" -> NotSpawned(S, w)
       [] OTHER -> ReturnWaited(S, w)

\* w runs until it has to wait for the world or for another thread
RECURSIVE Settle(_, _)
Settle(S, w) ==
  IF Runnable(S, w)
  THEN CHOOSE R \in {Settle(T, w) : T \in {Step(S, w)}} : TRUE
  ELSE S

\* ------------------------------------------------------------------------
\* Actions
\* ------------------------------------------------------------------------
\* the client's call of analyze_files starts running
CallAnalyzeFiles ==
  /\ At(Cur, Main, "batch", "enter")
  /\ Apply(Settle(Cur, Main))

\* a thread blocked in a join, or outside the pool, finds its latch set
Wake(w) ==
  /\ stack[w] # <<>>
  /\ Top(Cur, w).t \in {"join", "cold"}
  /\ Runnable(Cur, w)
  /\ Apply(Settle(Cur, w))

\* the closure of analyze_files takes its progress number from the counter
\* the threads share
FetchAdd(w) ==
  /\ At(Cur, w, "file", "count")
  /\ Apply(Settle(FileCount(Cur, w), w))

\* analyze_file: the dependencies were never initialized
FileDepsMissing(w) ==
  /\ At(Cur, w, "file", "open")
  /\ ~deps
  /\ Apply(Settle(FileFails(Cur, w, Top(Cur, w).a, "dependency"), w))

\* analyze_file: get_file_size cannot read the metadata
FileMetaUnreadable(w) ==
  /\ At(Cur, w, "file", "open")
  /\ deps
  /\ LET i == Top(Cur, w).a
     IN Apply(Settle(FileFails([Cur EXCEPT !.meta[i] = "unreadable"], w, i, "io"), w))

\* analyze_file: the size is read and the probes are launched
FileFanOut(w) ==
  /\ At(Cur, w, "file", "open")
  /\ deps
  /\ LET i == Top(Cur, w).a
     IN Apply(Settle(FanOut([Cur EXCEPT !.meta[i] = "ok"], w), w))

\* what the extractor of probe k makes of each outcome of its process
ProbeResults ==
  [k \in 1..NumProbes |-> [o \in AnyOutcomes(k) |-> ProbeDone(k, o.exit, o.text)]]

\* a tool that may or may not start: the spawn fails
ProbeSpawnFails(w) ==
  /\ At(Cur, w, "probe", "spawn")
  /\ tool = "any"
  /\ Apply(Settle(NotSpawned(Cur, w), w))

\* a tool that may or may not start: the spawn succeeds
ProbeSpawn(w) ==
  /\ At(Cur, w, "probe", "spawn")
  /\ tool = "any"
  /\ Apply(Spawned(Cur, w))

\* the process exits and the extractor parses its error stream
ProcExit(w) ==
  /\ At(Cur, w, "probe", "wait")
  /\ \E o \in Outcomes(Top(Cur, w).b) :
       LET i == Top(Cur, w).a
           k == Top(Cur, w).b
       IN Apply(Settle(Return([Cur EXCEPT !.probe[i][k] = ProbeResults[k][o]], w), w))

\* config.ffmpeg.timeout_seconds, set by FfmpegConfig::default
timeout_seconds == 300

\* timeout_seconds pass while the process of a probe is still running
TimeoutElapses ==
  /\ timeout_seconds > 0
  /\ \E i \in 1..Len(paths) : \E k \in 1..NumProbes :
       /\ probe[i][k].st = "running"
       /\ ~probe[i][k].overdue
       /\ Apply([Cur EXCEPT !.probe[i][k].overdue = TRUE])

\* a worker that is idle, or that waits in a join for a closure another thread
\* took, looks for a job: its own queue, then the oldest entry of another
\* worker's queue, then the injector
Seeking(w) ==
  \/ stack[w] = <<>>
  \/ /\ At(Cur, w, "join", "wait")
     /\ Top(Cur, w).job \notin latch

Take(S, w, task) == [S EXCEPT !.stack[w] = Append(@, TaskFrame(task, TRUE, task))]

FindWork(w) ==
  /\ w \in DOMAIN deque
  /\ Seeking(w)
  /\ IF deque[w] # <<>>
     THEN Apply(Settle(Take([Cur EXCEPT !.deque[w] = Pop(@)], w, Last(deque[w])), w))
     ELSE IF \E v \in DOMAIN deque : deque[v] # <<>>
     THEN \E v \in DOMAIN deque :
            /\ deque[v] # <<>>
            /\ Apply(Settle(Take([Cur EXCEPT !.deque[v] = Tail(@)], w, Head(deque[v])), w))
     ELSE /\ injector # <<>>
          /\ Apply(Settle(Take([Cur EXCEPT !.injector = Tail(@)], w, Head(injector)), w))

\* ------------------------------------------------------------------------
\* Specifications
\* ------------------------------------------------------------------------
\* analyze_files on a list of paths
Next ==
  \/ CallAnalyzeFiles
  \/ \E w \in Threads : Wake(w)
  \/ \E w \in Threads : FetchAdd(w)
  \/ \E w \in Threads : FileDepsMissing(w)
  \/ \E w \in Threads : FileMetaUnreadable(w)
  \/ \E w \in Threads : FileFanOut(w)
  \/ \E w \in Threads : ProcExit(w)
  \/ \E w \in Threads : FindWork(w)

Spec == Init /\ [][Next]_vars

\* analyze_files with threads that the operating system keeps running and
\* processes that exit: a step is taken whenever one can be
SpecLive == Spec /\ WF_vars(Next)

\* analyze_file on one path
NextFile ==
  \/ \E w \in Threads : Wake(w)
  \/ \E w \in Threads : FileDepsMissing(w)
  \/ \E w \in Threads : FileMetaUnreadable(w)
  \/ \E w \in Threads : FileFanOut(w)
  \/ \E w \in Threads : ProbeSpawnFails(w)
  \/ \E w \in Threads : ProbeSpawn(w)
  \/ \E w \in Threads : ProcExit(w)
  \/ \E w \in Threads : FindWork(w)

SpecFile == InitFile /\ [][NextFile]_vars

\* analyze_file on one path, with the clock of the per-probe timeout
NextTimeout == TimeoutElapses \/ NextFile

SpecTimeout == InitFile /\ [][NextTimeout]_vars

\* ------------------------------------------------------------------------
\* The parsers on their own: an extractor is applied to a captured text
\* ------------------------------------------------------------------------
LinesLra ==
  {Line("LRA", pre, 0, num, FALSE) :
     pre \in BOOLEAN, num \in {Tok_5_0, Tok_7_2, Tok_9_9, Tok_dash_dot}}
  \cup {Line("LRA", FALSE, 0, Tok_7_2, TRUE), OtherLine}

LinesStats ==
  {Line("HDR", FALSE, 0, <<>>, FALSE), Line("HDR", FALSE, 1, <<>>, FALSE),
   Line("HDR", TRUE, 0, <<>>, FALSE), OtherLine}
  \cup {Line("PEAK", FALSE, 0, num, FALSE) :
          num \in {Tok_m1_5, Tok_m0_3, Tok_dash_dot, Tok_m2x}}
  \cup {Line("RMS", FALSE, 0, num, FALSE) :
          num \in {Tok_m20_1, Tok_dash_dot, Tok_m9u}}

LinesHighpass ==
  {Line("HDR", FALSE, 1, <<>>, FALSE), Line("HDR", FALSE, 0, <<>>, FALSE), OtherLine}
  \cup {Line("RMS", FALSE, 0, num, FALSE) :
          num \in {Tok_m20_1, Tok_m18, Tok_dash_dot, Tok_m9u}}

TextsOver(L) == UNION {[1..n -> L] : n \in 0..MaxLines}

InitParse ==
  /\ ptext \in [kind : {"lra"}, text : TextsOver(LinesLra)]
         \cup [kind : {"stats"}, text : TextsOver(LinesStats)]
         \cup [kind : {"highpass"}, text : TextsOver(LinesHighpass)]
  /\ pout = PoutIdle
  /\ deps = TRUE
  /\ num_threads = 0
  /\ api = "parse"
  /\ tool = "any"
  /\ paths = <<>>
  /\ stack = [w \in Threads |-> <<>>]
  /\ deque = [w \in Workers |-> <<>>]
  /\ InitRun

Parsed(k) ==
  LET r == ProbeParsed(k, ptext.text)
  IN [st |-> "done", res |-> r.res, stats |-> r.stats]

\* extract_lra_ebur128 on the captured text
ExtractLra ==
  /\ ptext.kind = "lra" /\ pout.st = "idle"
  /\ pout' = Parsed(1)
  /\ UNCHANGED <<deps, num_threads, api, tool, paths, stack, deque, injector,
                 latch, probe, meta, slot, processed_count, count, diag, ret, ptext,
                 side>>

\* extract_audio_stats on the captured text
ExtractStats ==
  /\ ptext.kind = "stats" /\ pout.st = "idle"
  /\ pout' = Parsed(2)
  /\ UNCHANGED <<deps, num_threads, api, tool, paths, stack, deque, injector,
                 latch, probe, meta, slot, processed_count, count, diag, ret, ptext,
                 side>>

\* extract_highpass_rms on the captured text
ExtractHighpass ==
  /\ ptext.kind = "highpass" /\ pout.st = "idle"
  /\ pout' = Parsed(3)
  /\ UNCHANGED <<deps, num_threads, api, tool, paths, stack, deque, injector,
                 latch, probe, meta, slot, processed_count, count, diag, ret, ptext,
                 side>>

NextParse == ExtractLra \/ ExtractStats \/ ExtractHighpass

SpecParse == InitParse /\ [][NextParse]_vars

\* ------------------------------------------------------------------------
\* File names and the extension filter
\* ------------------------------------------------------------------------
\* the analyzer and the parser check at rest
CoreIdle ==
  /\ deps = TRUE
  /\ num_threads = 0
  /\ api = "none"
  /\ tool = "any"
  /\ paths = <<>>
  /\ stack = [w \in Threads |-> <<>>]
  /\ deque = [w \in Workers |-> <<>>]
  /\ injector = <<>>
  /\ latch = {}
  /\ probe = <<>>
  /\ meta = <<>>
  /\ slot = <<>>
  /\ processed_count = 0
  /\ count = <<>>
  /\ diag = <<>>
  /\ ret = RetPending
  /\ ptext = NoText
  /\ pout = PoutIdle

core == <<deps, num_threads, api, tool, paths, stack, deque, injector, latch,
          probe, meta, slot, processed_count, count, diag, ret, ptext, pout>>

\* the characters of a file name: ASCII letters in both cases, a letter
\* outside ASCII in both cases, and the dot
NameChars == {"w", "W", "t", "e_acute", "E_acute", "."}

\* u8::to_ascii_lowercase, character by character
to_ascii_lowercase(c) ==
  CASE c = "W" -> "w" [] c = "T" -> "t" [] c = "R" -> "r" [] c = "U" -> "u"
    [] c = "E" -> "e" [] OTHER -> c

\* str::eq_ignore_ascii_case compares whole strings with the case equal
eq_exact(a, b) == a = b

\* str::eq_ignore_ascii_case
eq_ignore_ascii_case(a, b) ==
  /\ Len(a) = Len(b)
  /\ \A i \in 1..Len(a) : to_ascii_lowercase(a[i]) = to_ascii_lowercase(b[i])

NoExt == [ok |-> FALSE, v |-> <<>>]

\* Path::file_name of a one-component path: none for "", "." and ".."
has_file_name(name) == name \notin {<<>>, <<".">>, <<".", ".">>}

\* Path::extension: the text after the final dot of the file name, none
\* when there is no dot or when the only dot comes first
extension(name) ==
  LET dots == {k \in 1..Len(name) : name[k] = "."}
  IN IF ~has_file_name(name) \/ dots = {} THEN NoExt
     ELSE IF MaxOf(dots) = 1 THEN NoExt
     ELSE Some(SubSeq(name, MaxOf(dots) + 1, Len(name)))

\* AnalyzerConfig::is_supported_extension
is_supported_extension(supported_extensions, ext) ==
  \E i \in 1..Len(supported_extensions) :
     eq_ignore_ascii_case(supported_extensions[i], ext)

\* fs_utils::is_supported_audio_file
is_supported_audio_file(path, supported_extensions) ==
  LET ext == extension(path)
  IN IF ext.ok
     THEN \E i \in 1..Len(supported_extensions) :
             eq_ignore_ascii_case(supported_extensions[i], ext.v)
     ELSE FALSE

Names == UNION {[1..n -> NameChars] : n \in 0..MaxName}

\* the allow-lists tried; an entry may be the empty string, which
\* AnalyzerConfig::validate accepts
ExtLists ==
  {<<>>, << <<"w">> >>, << <<"t">>, <<"W", "w">> >>, << <<"w">>, <<>> >>,
   << <<"e_acute">> >>}

InitFilter ==
  /\ CoreIdle
  /\ flt \in [name : Names, exts : ExtLists, fileDone : {FALSE}, file : {FALSE},
              cfgDone : {FALSE}, cfg : {FALSE}]
  /\ scan = Unused
  /\ rec = Unused
  /\ cli = Unused
  /\ RestUnused

\* is_supported_audio_file is asked about the path
IsSupportedAudioFile ==
  /\ ~flt.fileDone
  /\ flt' = [flt EXCEPT !.fileDone = TRUE,
                        !.file = is_supported_audio_file(flt.name, flt.exts)]
  /\ UNCHANGED <<core, scan, rec, cli, cmd, cfg, app, ana>>

\* is_supported_extension is asked about the extension of the path
IsSupportedExtension ==
  /\ ~flt.cfgDone
  /\ extension(flt.name).ok
  /\ flt' = [flt EXCEPT !.cfgDone = TRUE,
                        !.cfg = is_supported_extension(flt.exts, extension(flt.name).v)]
  /\ UNCHANGED <<core, scan, rec, cli, cmd, cfg, app, ana>>

NextFilter == IsSupportedAudioFile \/ IsSupportedExtension

SpecFilter == InitFilter /\ [][NextFilter]_vars

\* ------------------------------------------------------------------------
\* The directory scan: WalkDir over a tree, filtered by extension
\* ------------------------------------------------------------------------
\* a node of the file system: a regular file, a symbolic link, or a
\* directory with its entries in the order read_dir gives them
Node(kind, name, readable, entries) ==
  [kind |-> kind, name |-> name, readable |-> readable, entries |-> entries]

FileNode(name) == Node("file", name, TRUE, <<>>)
LinkNode(name) == Node("link", name, TRUE, <<>>)
DirNode(name, readable, entries) == Node("dir", name, readable, entries)
MissingNode(name) == Node("missing", name, FALSE, <<>>)

Name_t_w == <<"t", ".", "w">>
Name_w_t == <<"w", ".", "t">>
Name_W_W == <<"W", ".", "W">>
Name_w_w == <<"w", ".", "w">>
Name_link == <<"e_acute", ".", "w">>
Name_root == <<"t">>

\* sequences of at most MaxEntries nodes of N with pairwise distinct names
EntryLists(N) ==
  {e \in UNION {[1..n -> N] : n \in 0..MaxEntries} :
     \A i, j \in 1..Len(e) : i # j => e[i].name # e[j].name}

\* what a directory one level down may hold
NestedNodes == {FileNode(Name_t_w), FileNode(Name_w_t)}

\* what the root directory may hold
TopNodes ==
  {FileNode(Name_t_w), FileNode(Name_w_t), FileNode(Name_W_W), LinkNode(Name_link)}
  \cup {DirNode(Name_w_w, TRUE, e) : e \in EntryLists(NestedNodes)}
  \cup {DirNode(Name_w_w, FALSE, <<>>)}

\* what the scanned path may be
Roots ==
  {MissingNode(Name_root), DirNode(Name_root, FALSE, <<>>),
   FileNode(Name_t_w), FileNode(Name_w_t)}
  \cup {DirNode(Name_root, TRUE, e) : e \in EntryLists(TopNodes)}

\* an item of the walk: Ok(DirEntry) with its path and file type, or Err
OkItem(path, kind) == [ok |-> TRUE, path |-> path, kind |-> kind]
ErrItem(path) == [ok |-> FALSE, path |-> path, kind |-> "none"]

RECURSIVE Concat(_)
Concat(ss) == IF ss = <<>> THEN <<>> ELSE Head(ss) \o Concat(Tail(ss))

\* WalkDir::new(dir).into_iter(): a directory comes before its contents, a
\* directory that cannot be read gives an error after its own entry, a path
\* that does not exist gives an error, links are not followed
RECURSIVE Walk(_, _)
Walk(node, parent) ==
  LET path == Append(parent, node.name)
  IN CASE node.kind = "missing" -> <<ErrItem(path)>>
       [] node.kind \in {"file", "link"} -> <<OkItem(path, node.kind)>>
       [] node.kind = "dir" /\ ~node.readable -> <<OkItem(path, "dir"), ErrItem(path)>>
       [] OTHER ->
            <<OkItem(path, "dir")>>
              \o Concat([i \in 1..Len(node.entries) |-> Walk(node.entries[i], path)])

\* the test of the loop body taking every entry whose name is eligible
Eligible_anykind(item, supported_extensions) ==
  is_supported_audio_file(Last(item.path), supported_extensions)

\* the test of the loop body: a regular file with a supported extension
Eligible(item, supported_extensions) ==
  /\ item.kind = "file"
  /\ is_supported_audio_file(Last(item.path), supported_extensions)

ScanLists == {<< <<"w">> >>, << <<"w">>, <<"t">> >>}

InitScan ==
  /\ CoreIdle
  /\ flt = Unused
  /\ \E root \in Roots : \E exts \in ScanLists :
       scan = [root |-> root, exts |-> exts, items |-> Walk(root, <<>>), pos |-> 1,
               audio_files |-> <<>>, result |-> "running", returned |-> <<>>]
  /\ rec = Unused
  /\ cli = Unused
  /\ RestUnused

ScanRunning == scan.result = "running" /\ scan.pos <= Len(scan.items)

\* the walk yields an error: the `?` returns it from scan_audio_files
ScanEntryFails ==
  /\ ScanRunning
  /\ ~scan.items[scan.pos].ok
  /\ scan' = [scan EXCEPT !.result = "err"]
  /\ UNCHANGED <<core, flt, rec, cli, cmd, cfg, app, ana>>

\* the walk yields an entry: it is kept when it is an eligible file
ScanEntry ==
  /\ ScanRunning
  /\ scan.items[scan.pos].ok
  /\ scan' = [scan EXCEPT
        !.pos = @ + 1,
        !.audio_files = IF Eligible(scan.items[scan.pos], scan.exts)
                        THEN Append(@, scan.items[scan.pos].path) ELSE @]
  /\ UNCHANGED <<core, flt, rec, cli, cmd, cfg, app, ana>>

\* the walk is over: Ok(audio_files)
ScanReturn ==
  /\ scan.result = "running"
  /\ scan.pos > Len(scan.items)
  /\ scan' = [scan EXCEPT !.result = "ok", !.returned = scan.audio_files]
  /\ UNCHANGED <<core, flt, rec, cli, cmd, cfg, app, ana>>

NextScan == ScanEntryFails \/ ScanEntry \/ ScanReturn

SpecScan == InitScan /\ [][NextScan]_vars

\* ------------------------------------------------------------------------
\* AudioMetrics records: completeness and the JSON form (types.rs)
\* ------------------------------------------------------------------------
\* f64::INFINITY: what every magnitude beyond the finite range is
Infinity == Pow10(Prec + 4)

is_finite(x) == 0 - Infinity < x /\ x < Infinity

Quote == "\""
Backslash == "\\"

\* the characters of a JSON string body: quote and backslash are escaped
RECURSIVE Escape(_)
Escape(s) ==
  IF s = <<>> THEN <<>>
  ELSE (IF s[1] \in {Quote, Backslash} THEN <<Backslash, s[1]>> ELSE <<s[1]>>)
       \o Escape(Tail(s))

\* reading a JSON string body back: a backslash stands for the character
\* after it
RECURSIVE Unescape(_)
Unescape(s) ==
  IF s = <<>> THEN <<>>
  ELSE IF s[1] = Backslash /\ Len(s) >= 2
       THEN <<s[2]>> \o Unescape(SubSeq(s, 3, Len(s)))
       ELSE <<s[1]>> \o Unescape(Tail(s))

DigitChar(d) == CHOOSE c \in AsciiDigits : DigitVal(c) = d

\* the decimal digits of a natural number
RECURSIVE Digits(_)
Digits(n) ==
  IF n < 10 THEN <<DigitChar(n)>>
  ELSE Digits(n \div 10) \o <<DigitChar(n % 10)>>

\* the fraction digits of a value: Prec digits without the trailing zeros,
\* one digit at least
RECURSIVE StripZeros(_)
StripZeros(s) ==
  IF Len(s) > 1 /\ s[Len(s)] = "0" THEN StripZeros(SubSeq(s, 1, Len(s) - 1)) ELSE s

RECURSIVE PadLeft(_, _)
PadLeft(s, n) == IF Len(s) >= n THEN s ELSE PadLeft(<<"0">> \o s, n)

\* a finite f64 as serde_json prints it: sign, integer digits, point, the
\* shortest fraction that reads back as the same value
FormatF64(x) ==
  LET mag == IF x < 0 THEN 0 - x ELSE x
      ip == mag \div Pow10(Prec)
      fp == mag % Pow10(Prec)
  IN (IF x < 0 THEN <<"-">> ELSE <<>>)
     \o Digits(ip) \o <<".">> \o StripZeros(PadLeft(Digits(fp), Prec))

\* u64 read from a JSON number: digits only
ParseU64(tok) ==
  IF tok # <<>> /\ AllIn(tok, AsciiDigits) THEN Some(DigitsVal(tok)) ELSE None

JNull == [t |-> "null", text |-> <<>>]
JNum(text) == [t |-> "num", text |-> text]
JStr(text) == [t |-> "str", text |-> text]
JMissing == [t |-> "missing", text |-> <<>>]

\* serde_json writing an f64: a number that is not finite is written as null
SerF64(x) == IF is_finite(x) THEN JNum(FormatF64(x)) ELSE JNull

\* Option<f64>: None is null, Some(x) is x
SerOptF64(o) == IF o.ok THEN SerF64(o.v) ELSE JNull

Member(name, value) == [name |-> name, value |-> value]

\* the names #[serde(rename = ...)] gives the fields, in declaration order
FieldNames ==
  <<"filePath", "fileSizeBytes", "lra", "peakAmplitudeDb", "overallRmsDb",
    "rmsDbAbove16k", "rmsDbAbove18k", "rmsDbAbove20k", "processingTimeMs">>

\* serde_json::to_string of an AudioMetrics: the members of the object
to_string(m) ==
  <<Member("filePath", JStr(Escape(m.file_path))),
    Member("fileSizeBytes", JNum(Digits(m.file_size_bytes))),
    Member("lra", SerOptF64(m.lra)),
    Member("peakAmplitudeDb", SerOptF64(m.peak_amplitude_db)),
    Member("overallRmsDb", SerOptF64(m.overall_rms_db)),
    Member("rmsDbAbove16k", SerOptF64(m.rms_db_above_16k)),
    Member("rmsDbAbove18k", SerOptF64(m.rms_db_above_18k)),
    Member("rmsDbAbove20k", SerOptF64(m.rms_db_above_20k)),
    Member("processingTimeMs", JNum(Digits(m.processing_time_ms)))>>

\* the value of the member of that name
MemberOf(json, name) ==
  LET at == {i \in 1..Len(json) : json[i].name = name}
  IN IF at = {} THEN JMissing ELSE json[MinOf(at)].value

DeString(v) == IF v.t = "str" THEN [ok |-> TRUE, v |-> Unescape(v.text)]
               ELSE [ok |-> FALSE, v |-> <<>>]

DeU64(v) == IF v.t = "num" THEN ParseU64(v.text) ELSE None

\* Option<f64>: null or no member is None, a number is Some
DeOptF64(v) ==
  IF v.t \in {"null", "missing"} THEN [ok |-> TRUE, v |-> None]
  ELSE IF v.t = "num" /\ ParseF64(v.text).ok
       THEN [ok |-> TRUE, v |-> ParseF64(v.text)]
       ELSE [ok |-> FALSE, v |-> None]

NoRecord == AudioMetrics_new(<<>>, 0)

\* serde_json::from_str::<AudioMetrics> of an object
from_str(json) ==
  LET file_path == DeString(MemberOf(json, "filePath"))
      file_size_bytes == DeU64(MemberOf(json, "fileSizeBytes"))
      lra == DeOptF64(MemberOf(json, "lra"))
      peak_amplitude_db == DeOptF64(MemberOf(json, "peakAmplitudeDb"))
      overall_rms_db == DeOptF64(MemberOf(json, "overallRmsDb"))
      rms_db_above_16k == DeOptF64(MemberOf(json, "rmsDbAbove16k"))
      rms_db_above_18k == DeOptF64(MemberOf(json, "rmsDbAbove18k"))
      rms_db_above_20k == DeOptF64(MemberOf(json, "rmsDbAbove20k"))
      processing_time_ms == DeU64(MemberOf(json, "processingTimeMs"))
      ok == /\ file_path.ok /\ file_size_bytes.ok /\ lra.ok
            /\ peak_amplitude_db.ok /\ overall_rms_db.ok /\ rms_db_above_16k.ok
            /\ rms_db_above_18k.ok /\ rms_db_above_20k.ok /\ processing_time_ms.ok
  IN IF ok
     THEN [ok |-> TRUE,
           m |-> [file_path |-> file_path.v,
                  file_size_bytes |-> file_size_bytes.v,
                  lra |-> lra.v,
                  peak_amplitude_db |-> peak_amplitude_db.v,
                  overall_rms_db |-> overall_rms_db.v,
                  rms_db_above_16k |-> rms_db_above_16k.v,
                  rms_db_above_18k |-> rms_db_above_18k.v,
                  rms_db_above_20k |-> rms_db_above_20k.v,
                  processing_time_ms |-> processing_time_ms.v]]
     ELSE [ok |-> FALSE, m |-> NoRecord]

OptionalFields ==
  {"lra", "peak_amplitude_db", "overall_rms_db", "rms_db_above_16k",
   "rms_db_above_18k", "rms_db_above_20k"}

\* the values a field is given: -3.2 and a number beyond the finite range
FieldValues == {Some(0 - 3200), Some(Infinity)}

\* file paths: plain, with a quote, with a backslash
PathTexts == {<<"a">>, <<"a", Quote>>, <<Backslash, "a">>}

InitRecord ==
  /\ CoreIdle
  /\ flt = Unused
  /\ scan = Unused
  /\ \E file_path \in PathTexts, file_size_bytes \in {0, 1024} :
       rec = [m |-> AudioMetrics_new(file_path, file_size_bytes),
              completeDone |-> FALSE, complete |-> FALSE,
              jsonDone |-> FALSE, json |-> <<>>,
              backDone |-> FALSE, back |-> [ok |-> FALSE, m |-> NoRecord]]
  /\ cli = Unused
  /\ RestUnused

\* a caller assigns one of the optional fields
SetField ==
  /\ ~rec.jsonDone
  /\ \E f \in OptionalFields, v \in FieldValues :
       /\ ~rec.m[f].ok
       /\ rec' = [rec EXCEPT !.m[f] = v, !.completeDone = FALSE, !.complete = FALSE]
  /\ UNCHANGED <<core, flt, scan, cli, cmd, cfg, app, ana>>

\* a caller assigns the processing time
SetProcessingTime ==
  /\ ~rec.jsonDone
  /\ rec.m.processing_time_ms = 0
  /\ rec' = [rec EXCEPT !.m.processing_time_ms = 1500,
                        !.completeDone = FALSE, !.complete = FALSE]
  /\ UNCHANGED <<core, flt, scan, cli, cmd, cfg, app, ana>>

\* is_complete is asked about the record
IsComplete ==
  /\ ~rec.completeDone
  /\ rec' = [rec EXCEPT !.completeDone = TRUE, !.complete = is_complete(rec.m)]
  /\ UNCHANGED <<core, flt, scan, cli, cmd, cfg, app, ana>>

\* the record is serialized
Serialize ==
  /\ ~rec.jsonDone
  /\ rec' = [rec EXCEPT !.jsonDone = TRUE, !.json = to_string(rec.m)]
  /\ UNCHANGED <<core, flt, scan, cli, cmd, cfg, app, ana>>

\* the serialized form is read back
Deserialize ==
  /\ rec.jsonDone
  /\ ~rec.backDone
  /\ rec' = [rec EXCEPT !.backDone = TRUE, !.back = from_str(rec.json)]
  /\ UNCHANGED <<core, flt, scan, cli, cmd, cfg, app, ana>>

NextRecord == SetField \/ SetProcessingTime \/ IsComplete \/ Serialize \/ Deserialize

SpecRecord == InitRecord /\ [][NextRecord]_vars

\* ------------------------------------------------------------------------
\* The command-line pipeline after the analysis (bin/main.rs, main.rs)
\* ------------------------------------------------------------------------
\* serde_json::to_string_pretty of n records, in the pieces fs::write hands
\* to the file
Content(n) == <<"[">> \o [i \in 1..n |-> "record"] \o <<"]">>

NoFile == [exists |-> FALSE, data |-> <<>>]
\* analysis_data.json left by an earlier run
StaleFile == [exists |-> TRUE, data |-> <<"[", "old", "]">>]

\* the run treating every exit status of the generator as success
ExitResult_ignore(status) == "ok"

\* !status.success() is an error of the run
ExitResult(status) == IF status = "zero" THEN "ok" ELSE "err"

\* the command-line program is about to analyze the chosen directory, which
\* holds found supported audio files; bin is the program of bin/main.rs,
\* single the one of main.rs, which carries its generator with it
InitCli ==
  /\ CoreIdle
  /\ flt = Unused
  /\ scan = Unused
  /\ rec = Unused
  /\ RestUnused
  /\ \E variant \in {"bin", "single"}, found \in 0..MaxFiles,
        script_exists \in BOOLEAN, file \in {NoFile, StaleFile} :
       /\ variant = "single" => script_exists
       /\ cli = [variant |-> variant, found |-> found, results |-> 0,
                 warned |-> FALSE,
                 script_exists |-> script_exists, pc |-> "analyze",
                 file |-> file, write_failed |-> FALSE, invoked |-> FALSE,
                 input |-> NoFile, status |-> "none", result |-> "running"]

\* what the run makes of a directory without a supported audio file: in
\* bin/main.rs analyze_directory returns Err and ? ends main with it, main.rs
\* prints the warning and returns Ok
NoAudioFilesResult(variant) ==
  IF variant = "bin" THEN [warned |-> FALSE, result |-> "err"]
  ELSE [warned |-> TRUE, result |-> "ok"]

\* the scan finds no supported audio file
NoAudioFiles ==
  /\ cli.pc = "analyze"
  /\ cli.found = 0
  /\ cli' = [cli EXCEPT !.pc = "done",
                        !.warned = NoAudioFilesResult(cli.variant).warned,
                        !.result = NoAudioFilesResult(cli.variant).result]
  /\ UNCHANGED <<core, flt, scan, rec, cmd, cfg, app, ana>>

\* the files found are analyzed; those that fail give no record
AnalyzeDirectory ==
  /\ cli.pc = "analyze"
  /\ cli.found > 0
  /\ \E n \in 0..cli.found : cli' = [cli EXCEPT !.pc = "results", !.results = n]
  /\ UNCHANGED <<core, flt, scan, rec, cmd, cfg, app, ana>>

\* bin/main.rs: no record at all, the warning is printed and the run ends
\* before anything is written
NoResults ==
  /\ cli.pc = "results"
  /\ cli.variant = "bin"
  /\ cli.results = 0
  /\ cli' = [cli EXCEPT !.pc = "done", !.warned = TRUE, !.result = "ok"]
  /\ UNCHANGED <<core, flt, scan, rec, cmd, cfg, app, ana>>

Writes == cli.pc = "results" /\ (cli.variant = "single" \/ cli.results > 0)

\* fs::write creates or truncates the dataset file
WriteCreate ==
  /\ Writes
  /\ cli' = [cli EXCEPT !.pc = "writing", !.file = [exists |-> TRUE, data |-> <<>>]]
  /\ UNCHANGED <<core, flt, scan, rec, cmd, cfg, app, ana>>

\* fs::write cannot create the dataset file: the error ends the run
WriteCreateFails ==
  /\ Writes
  /\ cli' = [cli EXCEPT !.pc = "done", !.write_failed = TRUE, !.result = "err"]
  /\ UNCHANGED <<core, flt, scan, rec, cmd, cfg, app, ana>>

\* fs::write writes the next piece; after the last one it returns Ok
WriteAll ==
  /\ cli.pc = "writing"
  /\ LET data == Append(cli.file.data, Content(cli.results)[Len(cli.file.data) + 1])
     IN cli' = [cli EXCEPT !.file.data = data,
                           !.pc = IF data = Content(cli.results)
                                  THEN "written" ELSE "writing"]
  /\ UNCHANGED <<core, flt, scan, rec, cmd, cfg, app, ana>>

\* a write of fs::write fails: the error ends the run
WriteAllFails ==
  /\ cli.pc = "writing"
  /\ cli' = [cli EXCEPT !.pc = "done", !.write_failed = TRUE, !.result = "err"]
  /\ UNCHANGED <<core, flt, scan, rec, cmd, cfg, app, ana>>

\* call_python_analyzer of bin/main.rs: the script is not there, the report
\* is skipped with a warning
ScriptMissing ==
  /\ cli.pc = "written"
  /\ ~cli.script_exists
  /\ cli' = [cli EXCEPT !.pc = "done", !.result = "ok"]
  /\ UNCHANGED <<core, flt, scan, rec, cmd, cfg, app, ana>>

\* command.status() starts the generator on the dataset file
Spawn ==
  /\ cli.pc = "written"
  /\ cli.script_exists
  /\ cli' = [cli EXCEPT !.pc = "waiting", !.invoked = TRUE, !.input = cli.file]
  /\ UNCHANGED <<core, flt, scan, rec, cmd, cfg, app, ana>>

\* command.status() cannot start the generator: the error ends the run
SpawnFails ==
  /\ cli.pc = "written"
  /\ cli.script_exists
  /\ cli' = [cli EXCEPT !.pc = "done", !.result = "err"]
  /\ UNCHANGED <<core, flt, scan, rec, cmd, cfg, app, ana>>

\* the generator ends, by an exit status or by a signal
GeneratorExits ==
  /\ cli.pc = "waiting"
  /\ \E status \in {"zero", "nonzero", "signal"} :
       cli' = [cli EXCEPT !.pc = "done", !.status = status,
                          !.result = ExitResult(status)]
  /\ UNCHANGED <<core, flt, scan, rec, cmd, cfg, app, ana>>

NextCli ==
  \/ NoAudioFiles
  \/ AnalyzeDirectory
  \/ NoResults
  \/ WriteCreate
  \/ WriteCreateFails
  \/ WriteAll
  \/ WriteAllFails
  \/ ScriptMissing
  \/ Spawn
  \/ SpawnFails
  \/ GeneratorExits

SpecCli == InitCli /\ [][NextCli]_vars

\* ------------------------------------------------------------------------
\* The command lines of the probes (analyzer.rs: extract_*)
\* ------------------------------------------------------------------------
\* an argument is a sequence of pieces of text; format! joins the pieces
Arg(text) == <<text>>

\* the tail of every command with -hide_banner whatever the flag says
FfmpegArgs_always(ffmpeg) ==
  <<Arg("-hide_banner"), Arg("-loglevel"), Arg(ffmpeg.log_level)>>

\* the tail of every command: -hide_banner when config.ffmpeg.hide_banner,
\* then -loglevel and config.ffmpeg.log_level
FfmpegArgs(ffmpeg) ==
  (IF ffmpeg.hide_banner THEN <<Arg("-hide_banner")>> ELSE <<>>)
  \o <<Arg("-loglevel"), Arg(ffmpeg.log_level)>>

\* extract_lra_ebur128: the arguments of the command
LraArgs(file_path, ffmpeg) ==
  <<Arg("-i"), Arg(file_path), Arg("-filter_complex"), Arg("ebur128"),
    Arg("-f"), Arg("null"), Arg("-")>> \o FfmpegArgs(ffmpeg)

\* extract_audio_stats: the arguments of the command
StatsArgs(file_path, ffmpeg) ==
  <<Arg("-i"), Arg(file_path), Arg("-filter:a"), Arg("astats=metadata=1"),
    Arg("-map"), Arg("0:a"), Arg("-f"), Arg("null"), Arg("-")>> \o FfmpegArgs(ffmpeg)

\* format!("highpass=f={frequency},astats=metadata=1")
filter_str(frequency) ==
  <<"highpass=f=">> \o Digits(frequency) \o <<",astats=metadata=1">>

\* extract_highpass_rms: the arguments of the command
HighpassArgs(file_path, frequency, ffmpeg) ==
  <<Arg("-i"), Arg(file_path), Arg("-filter:a"), filter_str(frequency),
    Arg("-map"), Arg("0:a"), Arg("-f"), Arg("null"), Arg("-")>> \o FfmpegArgs(ffmpeg)

\* the command of probe k of analyze_file
ProbeArgs(k, file_path, ffmpeg) ==
  CASE k = 1 -> LraArgs(file_path, ffmpeg)
    [] k = 2 -> StatsArgs(file_path, ffmpeg)
    [] OTHER -> HighpassArgs(file_path, HighpassFreq(k), ffmpeg)

\* the values of config.ffmpeg.log_level tried, the default first
LogLevels == {"info", "error", ""}

\* analyze_file is about to build the commands of its probes for a file
InitCommand ==
  /\ CoreIdle
  /\ flt = Unused /\ scan = Unused /\ rec = Unused /\ cli = Unused
  /\ cfg = Unused /\ app = Unused /\ ana = Unused
  /\ \E file_path \in {"a.wav", "-hide_banner"}, hide_banner \in BOOLEAN,
        log_level \in LogLevels :
       cmd = [file_path |-> file_path,
              ffmpeg |-> [hide_banner |-> hide_banner, log_level |-> log_level],
              args |-> [k \in 1..NumProbes |-> <<>>]]

\* probe k builds its command
BuildCommand(k) ==
  /\ cmd.args[k] = <<>>
  /\ cmd' = [cmd EXCEPT !.args[k] = ProbeArgs(k, cmd.file_path, cmd.ffmpeg)]
  /\ UNCHANGED <<core, flt, scan, rec, cli, cfg, app, ana>>

NextCommand == \E k \in 1..NumProbes : BuildCommand(k)

SpecCommand == InitCommand /\ [][NextCommand]_vars

\* ------------------------------------------------------------------------
\* Configuration and construction (config.rs, analyzer.rs: new)
\* ------------------------------------------------------------------------
\* an f64 threshold: a number in units of 10^-Prec, or NaN
Num(v) == [nan |-> FALSE, v |-> v]
NaN == [nan |-> TRUE, v |-> 0]

\* a >= b on f64: false as soon as one side is NaN
f64_ge(a, b) == ~a.nan /\ ~b.nan /\ a.v >= b.v

\* QualityThresholds::default, the four fields validate reads
DefaultThresholds ==
  [lra_poor_max |-> Num(3000), lra_low_max |-> Num(6000),
   peak_good_db |-> Num(0 - 6000), peak_medium_db |-> Num(0 - 3000)]

\* AnalyzerConfig::default; the extension list is cut to its first two entries
DefaultConfig ==
  [supported_extensions |-> <<"wav", "mp3">>,
   quality_thresholds |-> DefaultThresholds,
   num_threads |-> None, verbose |-> FALSE, show_progress |-> TRUE]

\* validation that does not look at the number of threads
validate_nothreads(config) ==
  LET thresholds == config.quality_thresholds
  IN IF config.supported_extensions = <<>> THEN "err"
     ELSE IF f64_ge(thresholds.lra_poor_max, thresholds.lra_low_max) THEN "err"
     ELSE IF f64_ge(thresholds.peak_good_db, thresholds.peak_medium_db) THEN "err"
     ELSE "ok"

\* AnalyzerConfig::validate
validate(config) ==
  LET thresholds == config.quality_thresholds
  IN IF config.supported_extensions = <<>> THEN "err"
     ELSE IF config.num_threads.ok /\ config.num_threads.v = 0 THEN "err"
     ELSE IF f64_ge(thresholds.lra_poor_max, thresholds.lra_low_max) THEN "err"
     ELSE IF f64_ge(thresholds.peak_good_db, thresholds.peak_medium_db) THEN "err"
     ELSE "ok"

\* Option<DependencyHandle>: None, or the handle of the temporary directory
\* that holds the two tools
NoHandle == [ok |-> FALSE, temp_dir |-> 0]
Handle(temp_dir) == [ok |-> TRUE, temp_dir |-> temp_dir]

NoAnalyzer == [ok |-> FALSE, config |-> DefaultConfig, dependencies |-> NoHandle]

\* AudioAnalyzer::new
AudioAnalyzer_new(config) ==
  IF validate(config) = "ok"
  THEN [ok |-> TRUE, config |-> config, dependencies |-> NoHandle]
  ELSE NoAnalyzer

\* AudioAnalyzer::is_initialized
is_initialized(analyzer) == analyzer.dependencies.ok

\* the values a threshold is given
LraValues == {Num(3000), Num(6000), NaN}
PeakValues == {Num(0 - 6000), Num(0 - 3000), NaN}

\* a caller holds a configuration: the default with some fields assigned
InitConfig ==
  /\ CoreIdle
  /\ flt = Unused /\ scan = Unused /\ rec = Unused /\ cli = Unused
  /\ cmd = Unused /\ app = Unused /\ ana = Unused
  /\ \E supported_extensions \in {<<>>, <<"wav">>, DefaultConfig.supported_extensions},
        threads \in {None, Some(0), Some(4)},
        lra_poor_max \in LraValues, lra_low_max \in LraValues,
        peak_good_db \in PeakValues, peak_medium_db \in PeakValues :
       cfg = [config |-> [DefaultConfig EXCEPT
                            !.supported_extensions = supported_extensions,
                            !.num_threads = threads,
                            !.quality_thresholds =
                               [lra_poor_max |-> lra_poor_max,
                                lra_low_max |-> lra_low_max,
                                peak_good_db |-> peak_good_db,
                                peak_medium_db |-> peak_medium_db]],
              validateDone |-> FALSE, valid |-> "none",
              newDone |-> FALSE, analyzer |-> NoAnalyzer]

\* the caller validates the configuration
Validate ==
  /\ ~cfg.validateDone
  /\ cfg' = [cfg EXCEPT !.validateDone = TRUE, !.valid = validate(cfg.config)]
  /\ UNCHANGED <<core, flt, scan, rec, cli, cmd, app, ana>>

\* the caller makes an analyzer of the configuration
New ==
  /\ ~cfg.newDone
  /\ cfg' = [cfg EXCEPT !.newDone = TRUE, !.analyzer = AudioAnalyzer_new(cfg.config)]
  /\ UNCHANGED <<core, flt, scan, rec, cli, cmd, app, ana>>

NextConfig == Validate \/ New

SpecConfig == InitConfig /\ [][NextConfig]_vars

\* ------------------------------------------------------------------------
\* The configuration of the command-line program (bin/main.rs)
\* ------------------------------------------------------------------------
\* str::parse::<usize> of the text of an environment variable
ParseUsize(text) == ParseU64(text)

\* the fields of a configuration file that the command line can override
FileConfigs ==
  {[DefaultConfig EXCEPT !.verbose = v, !.show_progress = p, !.num_threads = t] :
     v \in BOOLEAN, p \in BOOLEAN, t \in {None, Some(2)}}

NoConfigFile == [given |-> FALSE, readable |-> FALSE, config |-> DefaultConfig]

\* --config: not given, a file that cannot be loaded, or a file that holds a
\* configuration
ConfigFiles ==
  {NoConfigFile, [given |-> TRUE, readable |-> FALSE, config |-> DefaultConfig]}
  \cup {[given |-> TRUE, readable |-> TRUE, config |-> c] : c \in FileConfigs}

Unset == [ok |-> FALSE, v |-> <<>>]

\* AUDIO_ANALYZER_VERBOSE: unset, true, TRUE, 1, e
VerboseTexts ==
  {Unset, Some(<<"t", "r", "u", "e">>), Some(<<"T", "R", "U", "E">>),
   Some(<<"1">>), Some(<<"e">>)}

\* AUDIO_ANALYZER_THREADS: unset, 8, not a number
ThreadsTexts == {Unset, Some(<<"8">>), Some(<<"e">>)}

\* create_config_from_matches; the file is loaded first, then the flags are
\* applied, then the environment where no flag was given, then the default
\* of show_progress
create_config_from_matches(matches, env) ==
  LET c0 == IF matches.config.given THEN matches.config.config ELSE DefaultConfig
      c1 == IF matches.verbose THEN [c0 EXCEPT !.verbose = TRUE] ELSE c0
      c2 == IF matches.quiet
            THEN [c1 EXCEPT !.verbose = FALSE, !.show_progress = FALSE] ELSE c1
      c3 == IF matches.threads.ok THEN [c2 EXCEPT !.num_threads = matches.threads] ELSE c2
      c4 == IF ~matches.verbose /\ ~matches.quiet /\ env.verbose.ok
            THEN [c3 EXCEPT !.verbose =
                     \/ eq_ignore_ascii_case(env.verbose.v, <<"t", "r", "u", "e">>)
                     \/ env.verbose.v = <<"1">>]
            ELSE c3
      c5 == IF ~matches.threads.ok /\ env.threads.ok /\ ParseUsize(env.threads.v).ok
            THEN [c4 EXCEPT !.num_threads = ParseUsize(env.threads.v)] ELSE c4
      c6 == IF ~matches.quiet THEN [c5 EXCEPT !.show_progress = TRUE] ELSE c5
  IN IF matches.config.given /\ ~matches.config.readable
     THEN [ok |-> FALSE, config |-> DefaultConfig]
     ELSE [ok |-> TRUE, config |-> c6]

\* the program was started with some flags, a configuration file or none, and
\* some environment
InitApp ==
  /\ CoreIdle
  /\ flt = Unused /\ scan = Unused /\ rec = Unused /\ cli = Unused
  /\ cmd = Unused /\ cfg = Unused /\ ana = Unused
  /\ \E verbose \in BOOLEAN, quiet \in BOOLEAN, threads \in {None, Some(4)},
        config \in ConfigFiles, env_verbose \in VerboseTexts,
        env_threads \in ThreadsTexts :
       app = [matches |-> [verbose |-> verbose, quiet |-> quiet,
                           threads |-> threads, config |-> config],
              env |-> [verbose |-> env_verbose, threads |-> env_threads],
              done |-> FALSE,
              result |-> [ok |-> FALSE, config |-> DefaultConfig]]

\* main makes its configuration
CreateConfig ==
  /\ ~app.done
  /\ app' = [app EXCEPT !.done = TRUE,
                        !.result = create_config_from_matches(app.matches, app.env)]
  /\ UNCHANGED <<core, flt, scan, rec, cli, cmd, cfg, ana>>

NextApp == CreateConfig

SpecApp == InitApp /\ [][NextApp]_vars

\* ------------------------------------------------------------------------
\* One analyzer over a sequence of calls (analyzer.rs)
\* ------------------------------------------------------------------------
\* initialize_dependencies extracting the tools again on an analyzer that is
\* already initialized
initialize_dependencies_again(analyzer, temp_dir, tempdir_ok, ffmpeg_ok, analyzer_ok) ==
  IF ~tempdir_ok \/ ~ffmpeg_ok \/ ~analyzer_ok
  THEN [result |-> "err", analyzer |-> analyzer]
  ELSE [result |-> "ok", analyzer |-> [analyzer EXCEPT !.dependencies = Handle(temp_dir)]]

\* initialize_dependencies: Ok at once when already initialized; otherwise a
\* fresh temporary directory and the two tools extracted into it, any failure
\* returned before self.dependencies is assigned
initialize_dependencies(analyzer, temp_dir, tempdir_ok, ffmpeg_ok, analyzer_ok) ==
  IF analyzer.dependencies.ok THEN [result |-> "ok", analyzer |-> analyzer]
  ELSE IF ~tempdir_ok \/ ~ffmpeg_ok \/ ~analyzer_ok
  THEN [result |-> "err", analyzer |-> analyzer]
  ELSE [result |-> "ok", analyzer |-> [analyzer EXCEPT !.dependencies = Handle(temp_dir)]]

\* a new analyzer with the default configuration
InitAnalyzer ==
  /\ CoreIdle
  /\ flt = Unused /\ scan = Unused /\ rec = Unused /\ cli = Unused
  /\ cmd = Unused /\ cfg = Unused /\ app = Unused
  /\ ana = [analyzer |-> AudioAnalyzer_new(DefaultConfig), calls |-> 0,
            op |-> "new", result |-> "ok", succeeded |-> FALSE,
            asked |-> FALSE, answer |-> FALSE]

\* the caller calls initialize_dependencies; the temporary directory and the
\* extraction of each tool may fail
InitializeDependencies ==
  /\ ana.calls < MaxCalls
  /\ \E tempdir_ok \in BOOLEAN, ffmpeg_ok \in BOOLEAN, analyzer_ok \in BOOLEAN :
       LET r == initialize_dependencies(ana.analyzer, ana.calls + 1,
                                        tempdir_ok, ffmpeg_ok, analyzer_ok)
       IN ana' = [ana EXCEPT !.analyzer = r.analyzer, !.calls = @ + 1,
                             !.op = "initialize_dependencies",
                             !.result = r.result,
                             !.succeeded = @ \/ r.result = "ok",
                             !.asked = FALSE]
  /\ UNCHANGED <<core, flt, scan, rec, cli, cmd, cfg, app>>

\* the caller calls analyze_file, analyze_files or analyze_directory: they
\* take &self and return what the analysis gives
Analyze ==
  /\ ana.calls < MaxCalls
  /\ \E op \in {"analyze_file", "analyze_files", "analyze_directory"},
        result \in {"ok", "err"} :
       /\ (op = "analyze_file" /\ ~is_initialized(ana.analyzer)) => result = "err"
       /\ op = "analyze_files" => result = "ok"
       /\ ana' = [ana EXCEPT !.calls = @ + 1, !.op = op, !.result = result,
                             !.asked = FALSE]
  /\ UNCHANGED <<core, flt, scan, rec, cli, cmd, cfg, app>>

\* the caller asks is_initialized
IsInitialized ==
  /\ ~ana.asked
  /\ ana' = [ana EXCEPT !.asked = TRUE, !.answer = is_initialized(ana.analyzer)]
  /\ UNCHANGED <<core, flt, scan, rec, cli, cmd, cfg, app>>

NextAnalyzer == InitializeDependencies \/ Analyze \/ IsInitialized

SpecAnalyzer == InitAnalyzer /\ [][NextAnalyzer]_vars

\* ------------------------------------------------------------------------
\* Properties
\* ------------------------------------------------------------------------
\* the value of the number tokens the tool prints
NumberOf(tok) ==
  CASE tok = Tok_5_0 -> 5000 [] tok = Tok_7_2 -> 7200 [] tok = Tok_9_9 -> 9900
    [] tok = Tok_m1_5 -> 0 - 1500 [] tok = Tok_m0_3 -> 0 - 300
    [] tok = Tok_m20_1 -> 0 - 20100 [] tok = Tok_m18 -> 0 - 18000
    [] tok = Tok_m70 -> 0 - 70000 [] tok = Tok_m80 -> 0 - 80000
    [] tok = Tok_m90 -> 0 - 90000

IsNumber(tok) ==
  tok \in {Tok_5_0, Tok_7_2, Tok_9_9, Tok_m1_5, Tok_m0_3, Tok_m20_1, Tok_m18,
           Tok_m70, Tok_m80, Tok_m90}

\* the metric fields that probe k feeds, as a tuple of options
FieldsOf(m, k) ==
  CASE k = 1 -> <<m.lra>>
    [] k = 2 -> <<m.peak_amplitude_db, m.overall_rms_db>>
    [] k = 3 -> <<m.rms_db_above_16k>>
    [] k = 4 -> <<m.rms_db_above_18k>>
    [] k = 5 -> <<m.rms_db_above_20k>>

\* what probe k yielded, as a tuple of options
YieldOf(pr, k) ==
  IF k = 2
  THEN (IF pr[2].stats.ok THEN <<pr[2].stats.peak_db, pr[2].stats.rms_db>>
        ELSE <<None, None>>)
  ELSE (IF pr[k].res.ok THEN <<Some(pr[k].res.v)>> ELSE <<None>>)

\* what the tool's regular output for probe k stands for
RegularYield(k) ==
  CASE k = 1 -> <<Some(9900)>>
    [] k = 2 -> <<Some(0 - 1500), Some(0 - 20100)>>
    [] k = 3 -> <<Some(0 - 70000)>>
    [] k = 4 -> <<Some(0 - 80000)>>
    [] k = 5 -> <<Some(0 - 90000)>>

\* C1: on an initialized analyzer and a file with readable metadata,
\* analyze_file returns Ok whatever the probes do; every metric field is
\* present exactly when its own probe yielded a value and carries that value
\* (the 16000 / 18000 / 20000 Hz probes feed rmsDbAbove16k / 18k / 20k), so no
\* probe's failure changes another probe's field; a record without lra is
\* not complete.
C1_FieldsFollowOwnProbe ==
  /\ ret.st = "err" => (~deps \/ meta[1] = "unreadable")
  /\ (stack[Main] = <<>> /\ deps /\ meta[1] = "ok") => ret.st = "ok"
  /\ ret.st = "ok" =>
       LET m == ret.recs[1]
           pr == probe[1]
       IN /\ \A k \in 1..NumProbes :
               /\ FieldsOf(m, k) = YieldOf(pr, k)
               /\ (pr[k].exit = "zero" /\ pr[k].text = ToolText(k))
                     => FieldsOf(m, k) = RegularYield(k)
               /\ pr[k].exit = "nospawn"
                     => \A j \in 1..Len(FieldsOf(m, k)) : ~FieldsOf(m, k)[j].ok
          /\ HighpassFreq(3) = 16000 /\ HighpassFreq(4) = 18000 /\ HighpassFreq(5) = 20000
          /\ ~m.lra.ok => ~is_complete(m)
          /\ m.file_path = paths[1]

C1_Witness ==
  /\ ret.st = "ok"
  /\ probe[1][1].exit = "nospawn"
  /\ ~ret.recs[1].lra.ok
  /\ ret.recs[1].peak_amplitude_db.ok /\ ret.recs[1].overall_rms_db.ok
  /\ ret.recs[1].rms_db_above_16k.ok /\ ret.recs[1].rms_db_above_18k.ok
  /\ ret.recs[1].rms_db_above_20k.ok
  /\ ~is_complete(ret.recs[1])

\* C2: in analyze_file the probes are joined, not raced: the record exists and
\* is returned only after every probe of the file has finished and every pool
\* thread has left the fan-out, and the returned record never changes again.
C2_AllProbesJoined ==
  ret.st = "ok" =>
    /\ \A k \in 1..NumProbes : probe[1][k].st = "done"
    /\ \A w \in Threads : stack[w] = <<>>
    /\ \A w \in Workers : deque[w] = <<>>

C2_RecordWrittenOnce == [][ret.st = "ok" => ret' = ret]_vars

C2_JoinNotRace == []C2_AllProbesJoined /\ C2_RecordWrittenOnce

\* the five processes all ran and exited while at some point two of them
\* were running at once is not visible in a final state; the witness is a
\* returned record of five processes that all exited
C2_Witness ==
  /\ ret.st = "ok"
  /\ \A k \in 1..NumProbes : probe[1][k].exit = "zero"

\* analyze_file fails for input i as a whole
FailedAtFileLevel(i) == ~deps \/ meta[i] = "unreadable"

FileDiagnostics(i) ==
  {j \in 1..Len(diag) : diag[j].kind = "file" /\ diag[j].path = paths[i]}

\* C3: analyze_files over N paths of which k fail at file level returns Ok
\* with exactly N - k records and has printed exactly one diagnostic per
\* failed file and none for the others; it never returns Err, and every path
\* has been processed when it returns.
C3_BatchDropsFailedFiles ==
  /\ ret.st # "err"
  /\ \A i \in 1..Len(paths) : Cardinality(FileDiagnostics(i)) <= 1
  /\ ret.st = "ok" =>
       /\ Len(ret.recs) = Len(paths) - Cardinality({i \in 1..Len(paths) : FailedAtFileLevel(i)})
       /\ \A i \in 1..Len(paths) :
            /\ slot[i].st # "empty"
            /\ Cardinality(FileDiagnostics(i)) = IF FailedAtFileLevel(i) THEN 1 ELSE 0
       /\ Len(diag) = Cardinality({i \in 1..Len(paths) : FailedAtFileLevel(i)})

C3_Witness ==
  /\ ret.st = "ok"
  /\ Len(paths) = 2
  /\ deps
  /\ Cardinality({i \in 1..Len(paths) : FailedAtFileLevel(i)}) = 1
  /\ Len(ret.recs) = 1
  /\ Len(diag) = 1

\* the inputs whose analyze_file call has begun and not returned
InFlight ==
  {i \in 1..Len(paths) :
     \E w \in Threads : \E j \in 1..Len(stack[w]) :
        stack[w][j].t = "file" /\ stack[w][j].a = i}

\* C4: during analyze_files the number of files analyzed at once never
\* exceeds the configured worker count, config.num_threads when set and the
\* available parallelism otherwise.
C4_WithinConfiguredWorkers == Cardinality(InFlight) <= effective_thread_count

\* C5: a probe whose process is still running when the configured timeout
\* has elapsed is terminated, so no process is ever left running past the
\* timeout with its probe still waiting for it.
C5_TimeoutEndsProbe ==
  \A i \in 1..Len(paths) : \A k \in 1..NumProbes :
     ~(probe[i][k].st = "running" /\ probe[i][k].overdue)

\* C6: a probe whose process exits with a non-zero status or cannot be
\* spawned is a per-probe error: its metric fields on the record are absent.
C6_FailedProcessGivesAbsent ==
  ret.st = "ok" =>
    \A k \in 1..NumProbes :
       probe[1][k].exit \in {"nonzero", "nospawn"}
         => \A j \in 1..Len(FieldsOf(ret.recs[1], k)) : ~FieldsOf(ret.recs[1], k)[j].ok

\* the captured text holds an RMS value in some form
HasRmsPattern(text) == \E i \in 1..Len(text) : MatchSimpleRms(text[i])

\* C7: a high-pass probe whose captured text holds no RMS pattern yields the
\* sentinel -144.0, and the sentinel stands for measured near-silence only:
\* a probe whose tool failed or could not be spawned yields an absent field,
\* never -144.0.
C7_SentinelMeansSilence ==
  ret.st = "ok" =>
    \A k \in 3..5 :
       LET field == FieldsOf(ret.recs[1], k)[1]
       IN /\ (probe[1][k].exit = "zero" /\ ~HasRmsPattern(probe[1][k].text))
               => field = Some(SilenceFloor)
          /\ probe[1][k].exit \in {"nonzero", "nospawn"} => ~field.ok

\* the summary lines and the parseable occurrences of a loudness text
SummaryAt(text) == {i \in 1..Len(text) : MatchSummaryLra(text[i])}
ParseableLraAt(text) == {i \in 1..Len(text) : MatchLra(text[i]) /\ IsNumber(text[i].num)}

\* C8 as amended: the loudness-range extractor returns the number of the
\* first line-anchored summary match when that number parses; otherwise the
\* number of the last parseable occurrence of the unanchored pattern (5.0,
\* 7.2, 9.9 give 9.9); otherwise it fails with a parse error.
C8_FirstSummaryElseLast ==
  (ptext.kind = "lra" /\ pout.st = "done") =>
    LET t == ptext.text
        S == SummaryAt(t)
        A == ParseableLraAt(t)
        firstParses == \E i \in S : (\A j \in S : i <= j) /\ IsNumber(t[i].num)
    IN /\ firstParses
            => \E i \in S : (\A j \in S : i <= j) /\ pout.res = OkVal(NumberOf(t[i].num))
       /\ (~firstParses /\ A # {})
            => \E i \in A : (\A j \in A : j <= i) /\ pout.res = OkVal(NumberOf(t[i].num))
       /\ (~firstParses /\ A = {}) => pout.res = ErrVal("parse")
       /\ t = <<Line("LRA", TRUE, 0, Tok_5_0, FALSE), Line("LRA", TRUE, 0, Tok_7_2, FALSE),
               Line("LRA", TRUE, 0, Tok_9_9, FALSE)>>
            => pout.res = OkVal(9900)

\* the first summary line does not parse, a later one does, and the
\* extractor has returned the last unanchored occurrence
C8_Witness ==
  /\ ptext.kind = "lra" /\ pout.st = "done"
  /\ ptext.text = <<Line("LRA", FALSE, 0, Tok_dash_dot, FALSE),
                    Line("LRA", FALSE, 0, Tok_5_0, FALSE),
                    Line("LRA", TRUE, 0, Tok_7_2, FALSE)>>
  /\ pout.res = OkVal(7200)

\* C8 as stated: if any line-anchored summary match with a parseable number
\* exists, the value of such a match is returned; otherwise the last
\* parseable unanchored occurrence; otherwise a parse error.
C8_AnySummaryElseLast ==
  (ptext.kind = "lra" /\ pout.st = "done") =>
    LET t == ptext.text
        P == {i \in SummaryAt(t) : IsNumber(t[i].num)}
        A == ParseableLraAt(t)
    IN /\ P # {} => \E i \in P : pout.res = OkVal(NumberOf(t[i].num))
       /\ (P = {} /\ A # {})
            => \E i \in A : (\A j \in A : j <= i) /\ pout.res = OkVal(NumberOf(t[i].num))
       /\ (P = {} /\ A = {}) => pout.res = ErrVal("parse")

\* the first match of a bare pattern in a text, parsed
BareFirst(text, P(_)) ==
  LET M == Positions(text, P)
  IN IF M = {} THEN None ELSE ParseF64(ClassPrefix(text[MinOf(M)].num, ClassStat))

\* C9: a match whose capture does not parse counts as no match and the
\* extractor goes on to its next strategy: when the structured peak/RMS
\* pattern matches with an unparseable peak (RMS) capture, the peak (RMS) of
\* the result is what the bare peak (RMS) pattern gives; a loudness or
\* high-pass text whose first-strategy capture does not parse gives what the
\* repeated-occurrence strategy gives.
C9_UnparseableFallsThrough ==
  pout.st = "done" =>
    LET t == ptext.text
    IN /\ ptext.kind = "stats" =>
            LET m == AstatsOverall(t)
            IN /\ (m.found /\ ~ParseF64(m.peak).ok /\ BareFirst(t, MatchSimplePeak).ok)
                    => (pout.stats.ok /\ pout.stats.peak_db = BareFirst(t, MatchSimplePeak))
               /\ (m.found /\ ~ParseF64(m.rms).ok /\ BareFirst(t, MatchSimpleRms).ok)
                    => (pout.stats.ok /\ pout.stats.rms_db = BareFirst(t, MatchSimpleRms))
       /\ ptext.kind = "lra" =>
            ((SummaryAt(t) # {} /\ \A i \in SummaryAt(t) : ~IsNumber(t[i].num))
               => (pout.res.ok <=> ParseableLraAt(t) # {}))
       /\ ptext.kind = "highpass" =>
            ((HighpassAstats(t).found /\ ~ParseF64(HighpassAstats(t).rms).ok)
               => (pout.res = OkVal(SilenceFloor)
                     <=> \A i \in 1..Len(t) :
                           MatchSimpleRms(t[i])
                             => ~ParseF64(ClassPrefix(t[i].num, ClassStat)).ok))

\* probe k of the file ended in an error that analyze_file absorbed
ProbeAbsorbed(k) ==
  IF k = 2 THEN ~probe[1][2].stats.ok ELSE ~probe[1][k].res.ok

\* C10: every probe error that analyze_file turned into an absent field has
\* produced a diagnostic naming the file path and the probe kind, and every
\* file dropped by analyze_files has produced a diagnostic naming its path.
C10_AbsorbedErrorsReported ==
  /\ (api = "analyze_file" /\ ret.st = "ok") =>
       \A k \in 1..NumProbes :
          ProbeAbsorbed(k) =>
            \E j \in 1..Len(diag) :
               /\ diag[j].kind = "probe"
               /\ diag[j].path = paths[1]
               /\ diag[j].detail = Probes[k]
  /\ \A i \in 1..Len(paths) : slot[i].st = "none" => FileDiagnostics(i) # {}

\* no probe of the file has been launched
NoProbeLaunched == \A k \in 1..NumProbes : probe[1][k] = ProbeIdle

\* C11 as amended: analyze_file returns Err exactly when the analyzer's
\* dependencies are not initialized or the file's metadata cannot be read;
\* the dependencies are looked at first, the size is read before any probe
\* is launched, and when Err is returned no probe has been launched.
C11_ErrBeforeAnyProbe ==
  /\ ret.st = "err" =>
       /\ ~deps \/ meta[1] = "unreadable"
       /\ ret.err = (IF ~deps THEN "dependency" ELSE "io")
       /\ NoProbeLaunched
  /\ (stack[Main] = <<>> /\ (~deps \/ meta[1] = "unreadable")) => ret.st = "err"
  /\ ~deps => meta[1] = "unread"
  /\ ~NoProbeLaunched => meta[1] = "ok"
  /\ ret.st = "ok" => (deps /\ meta[1] = "ok")

C11_Witness ==
  /\ api = "analyze_file"
  /\ deps
  /\ meta[1] = "unreadable"
  /\ ret = RetErr("io")
  /\ NoProbeLaunched

\* C11 as stated: unreadable metadata is the one and only condition under
\* which analyze_file returns Err, and then no probe has been launched.
C11_ErrOnlyOnMetadata ==
  /\ ret.st = "err" => (meta[1] = "unreadable" /\ NoProbeLaunched)
  /\ ~NoProbeLaunched => meta[1] = "ok"

ScanEnded == scan.result # "running"

\* C12: scan_audio_files fails whenever the root does not exist or is not a
\* directory, a regular file with a supported extension included, and then
\* returns no path list.
C12_NonDirectoryRootFails ==
  /\ scan.root.kind # "dir" => scan.result # "ok"
  /\ (scan.root.kind # "dir" /\ ScanEnded) => (scan.result = "err" /\ scan.returned = <<>>)

\* the extension of the names used in the trees, in lower case
ExtOf(name) ==
  CASE name = Name_t_w -> <<"w">>
    [] name = Name_w_t -> <<"t">>
    [] name = Name_W_W -> <<"w">>
    [] name = Name_w_w -> <<"w">>
    [] name = Name_link -> <<"w">>
    [] OTHER -> <<"none">>

Wanted(name) == \E i \in 1..Len(scan.exts) : scan.exts[i] = ExtOf(name)

\* the regular files of the tree, at either depth, whose directories can be
\* read and whose extension is in the allow-list
WantedFiles ==
  LET r == scan.root
  IN {<<r.name, r.entries[i].name>> :
        i \in {i \in 1..Len(r.entries) :
                 r.entries[i].kind = "file" /\ Wanted(r.entries[i].name)}}
     \cup UNION {
        {<<r.name, r.entries[i].name, r.entries[i].entries[j].name>> :
           j \in {j \in 1..Len(r.entries[i].entries) :
                    Wanted(r.entries[i].entries[j].name)}} :
        i \in {i \in 1..Len(r.entries) : r.entries[i].kind = "dir"}}

Returned == {scan.returned[i] : i \in 1..Len(scan.returned)}

\* C13: an entry that cannot be read is skipped and is not fatal: the scan
\* of a readable root still returns Ok with every eligible file among the
\* readable entries.
C13_UnreadableEntrySkipped ==
  (scan.root.kind = "dir" /\ scan.root.readable) =>
    /\ scan.result # "err"
    /\ scan.result = "ok" => Returned = WantedFiles

ReadableTree ==
  /\ scan.root.kind = "dir"
  /\ scan.root.readable
  /\ \A i \in 1..Len(scan.root.entries) :
       scan.root.entries[i].kind = "dir" => scan.root.entries[i].readable

\* C14: for a readable tree scan_audio_files returns exactly the regular
\* files at any depth whose extension is in the allow-list, each once;
\* directories, links and other files are never returned, an empty directory
\* gives an empty list, and one .w file, one .t file and one nested .w file
\* give exactly two paths for the allow-list {w}.
C14_ExactlyEligibleFiles ==
  ReadableTree =>
    /\ scan.result # "err"
    /\ Len(scan.audio_files) = Cardinality({scan.audio_files[i] : i \in 1..Len(scan.audio_files)})
    /\ {scan.audio_files[i] : i \in 1..Len(scan.audio_files)} \subseteq WantedFiles
    /\ scan.result = "ok" =>
         /\ Returned = WantedFiles
         /\ Len(scan.returned) = Cardinality(WantedFiles)
         /\ scan.root.entries = <<>> => scan.returned = <<>>
         /\ (/\ scan.exts = << <<"w">> >>
             /\ scan.root.entries =
                  <<FileNode(Name_t_w), FileNode(Name_w_t),
                    DirNode(Name_w_w, TRUE, <<FileNode(Name_t_w)>>)>>)
              => scan.returned = <<<<Name_root, Name_t_w>>, <<Name_root, Name_w_w, Name_t_w>>>>

C14_Witness ==
  /\ scan.result = "ok"
  /\ scan.exts = << <<"w">> >>
  /\ scan.root.entries =
       <<FileNode(Name_t_w), FileNode(Name_w_t),
         DirNode(Name_w_w, TRUE, <<FileNode(Name_t_w)>>)>>
  /\ Len(scan.returned) = 2

\* what decides the answer of the filter, stated on the characters
ExtensionStartsAt(n, k) ==
  /\ n[k] = "."
  /\ k >= 2
  /\ \A j \in (k + 1)..Len(n) : n[j] # "."
  /\ n # <<".", ".">>

SameButAsciiCase(a, b) ==
  /\ Len(a) = Len(b)
  /\ \A i \in 1..Len(a) : a[i] = b[i] \/ {a[i], b[i]} = {"w", "W"}

MatchesAllowList(n, exts) ==
  \E k \in 1..Len(n) :
     /\ ExtensionStartsAt(n, k)
     /\ \E i \in 1..Len(exts) : SameButAsciiCase(exts[i], SubSeq(n, k + 1, Len(n)))

\* C15 as amended: is_supported_audio_file is true exactly when the file
\* name has an extension (the text after its final dot, that dot not being
\* the first character) equal to some allow-list entry ignoring ASCII case; a
\* path with no extension is never eligible, a path with an empty extension
\* is eligible only when the allow-list holds an empty entry, and the answer
\* agrees with is_supported_extension applied to the extension.
C15_EligibleIffExtensionListed ==
  /\ flt.fileDone =>
       /\ flt.file <=> MatchesAllowList(flt.name, flt.exts)
       /\ (\A k \in 1..Len(flt.name) : flt.name[k] # ".") => ~flt.file
       /\ (flt.name = <<"t", ".", "W">> /\ flt.exts = << <<"w">> >>) => flt.file
       /\ (flt.name = <<"t", ".">> /\ flt.exts = << <<"w">> >>) => ~flt.file
       /\ (flt.name = <<"t", ".", "E_acute">> /\ flt.exts = << <<"e_acute">> >>) => ~flt.file
  /\ (flt.fileDone /\ flt.cfgDone) => flt.file = flt.cfg

C15_Witness ==
  /\ flt.fileDone /\ flt.cfgDone
  /\ flt.name = <<"t", ".">>
  /\ flt.exts = << <<"w">>, <<>> >>
  /\ flt.file /\ flt.cfg

\* C15 as stated: true exactly when the extension equals an allow-list
\* entry ignoring ASCII case, a path with no extension or an empty extension
\* never being eligible, in agreement with is_supported_extension.
C15_EmptyExtensionNeverEligible ==
  /\ flt.fileDone =>
       /\ (\A k \in 1..Len(flt.name) : flt.name[k] # ".") => ~flt.file
       /\ (Len(flt.name) >= 1 /\ flt.name[Len(flt.name)] = ".") => ~flt.file
  /\ (flt.fileDone /\ flt.cfgDone) => flt.file = flt.cfg

\* C16: analyze_files on an empty path list returns Ok with an empty
\* collection: no error, no diagnostic, no probe launched, nothing handed to
\* the pool and the progress counter untouched, initialized or not.
C16_EmptyListGivesEmptyOk ==
  (api = "analyze_files" /\ paths = <<>>) =>
    /\ ret.st # "err"
    /\ stack[Main] = <<>> => ret = RetOk(<<>>)
    /\ processed_count = 0
    /\ probe = <<>>
    /\ diag = <<>>
    /\ injector = <<>>
    /\ \A w \in Workers : stack[w] = <<>>
    /\ \A w \in DOMAIN deque : deque[w] = <<>>

C16_Witness ==
  /\ api = "analyze_files"
  /\ paths = <<>>
  /\ ~deps
  /\ ret = RetOk(<<>>)
  /\ processed_count = 0

\* C17: is_complete is true exactly when lra, peak_amplitude_db and
\* rms_db_above_18k are all present, whatever the other six fields hold, and
\* a freshly created record is incomplete.
C17_CompleteIffThreePresent ==
  rec.completeDone =>
    /\ rec.complete <=> /\ rec.m.lra # None
                        /\ rec.m.peak_amplitude_db # None
                        /\ rec.m.rms_db_above_18k # None
    /\ rec.m = AudioMetrics_new(rec.m.file_path, rec.m.file_size_bytes)
         => ~rec.complete

\* a record found complete although the three other optional fields are absent
C17_Witness ==
  /\ rec.completeDone
  /\ rec.complete
  /\ rec.m.overall_rms_db = None
  /\ rec.m.rms_db_above_16k = None
  /\ rec.m.rms_db_above_20k = None

\* C18: what is read back from the serialized form of a record equals the
\* record in all nine fields.
C18_RoundTripIdentical ==
  rec.backDone => rec.back.ok /\ rec.back.m = rec.m

\* every present value of the record is a finite number
AllFinite(m) == \A f \in OptionalFields : m[f].ok => is_finite(m[f].v)

\* a record whose present values are all finite is read back unchanged
C18_FiniteRecordRoundTrips ==
  rec.backDone /\ AllFinite(rec.m) => rec.back.ok /\ rec.back.m = rec.m

\* the serialized object has the nine documented names, and a member is null
\* exactly when the field is absent or holds a value that is not finite
C18_DocumentedLayout ==
  rec.jsonDone =>
    /\ [i \in 1..Len(rec.json) |-> rec.json[i].name] = FieldNames
    /\ rec.m.lra = None => MemberOf(rec.json, "lra") = JNull
    /\ MemberOf(rec.json, "lra") = JNull =>
         rec.m.lra = None \/ ~is_finite(rec.m.lra.v)

\* the progress numbers the closures of analyze_files have obtained so far
Obtained == {count[i] : i \in {j \in 1..Len(paths) : count[j] # 0}}

\* the numbers obtained are pairwise distinct and are exactly 1..counter, the
\* counter never exceeds the number of files, and when the call has returned
\* it equals the number of files
ProgressNumbers ==
  /\ processed_count \in 0..Len(paths)
  /\ Obtained = 1..processed_count
  /\ \A i, j \in 1..Len(paths) : (count[i] # 0 /\ count[i] = count[j]) => i = j
  /\ ret.st # "pending" => processed_count = Len(paths)

\* C19: under every interleaving of the workers the progress counter never
\* decreases, the numbers the N files obtain are pairwise distinct and are
\* exactly 1..N, and the final value is N whether the files succeeded or
\* failed.
C19_CounterCountsEveryFileOnce ==
  []ProgressNumbers /\ [][processed_count' >= processed_count]_vars

\* two files, the second counted first, one failed and one analyzed, and the
\* counter at 2 when the call has returned
C19_Witness ==
  /\ Len(paths) = 2
  /\ ret.st = "ok"
  /\ Len(ret.recs) = 1
  /\ count[2] = 1
  /\ count[1] = 2
  /\ processed_count = 2

\* C20: the generator is started only on a dataset file that holds the whole
\* serialized result, it is never started when the write of the dataset
\* failed, and a generator that ends with a non-zero status makes the run end
\* with an error.
C20_DatasetBeforeGenerator ==
  /\ cli.invoked => cli.input = [exists |-> TRUE, data |-> Content(cli.results)]
  /\ cli.pc \in {"results", "writing"} => ~cli.invoked
  /\ cli.write_failed => ~cli.invoked /\ cli.result = "err"
  /\ cli.status = "nonzero" => cli.result = "err"

\* a generator started on the dataset of two records over a stale file, ended
\* with a non-zero status
C20_Witness ==
  /\ cli.results = 2
  /\ cli.invoked
  /\ cli.status = "nonzero"
  /\ cli.result = "err"
  /\ cli.file.data = Content(2)

\* the filter arguments the documented template gives the family of probe k
FamilyArgs(k) ==
  CASE k = 1 -> <<Arg("-filter_complex"), Arg("ebur128")>>
    [] k = 2 -> <<Arg("-filter:a"), Arg("astats=metadata=1"), Arg("-map"), Arg("0:a")>>
    [] k = 3 -> <<Arg("-filter:a"), <<"highpass=f=", "1", "6", "0", "0", "0", ",astats=metadata=1">>,
                  Arg("-map"), Arg("0:a")>>
    [] k = 4 -> <<Arg("-filter:a"), <<"highpass=f=", "1", "8", "0", "0", "0", ",astats=metadata=1">>,
                  Arg("-map"), Arg("0:a")>>
    [] k = 5 -> <<Arg("-filter:a"), <<"highpass=f=", "2", "0", "0", "0", "0", ",astats=metadata=1">>,
                  Arg("-map"), Arg("0:a")>>

\* the command a has the documented order for probe k
FollowsTemplate(k, a) ==
  LET n == Len(a)
      f == Len(FamilyArgs(k))
      banner == IF cmd.ffmpeg.hide_banner THEN 1 ELSE 0
  IN /\ n = 2 + f + 3 + banner + 2
     /\ a[1] = Arg("-i") /\ a[2] = Arg(cmd.file_path)
     /\ SubSeq(a, 3, 2 + f) = FamilyArgs(k)
     /\ SubSeq(a, 3 + f, 5 + f) = <<Arg("-f"), Arg("null"), Arg("-")>>
     /\ cmd.ffmpeg.hide_banner <=> a[n - 2] = Arg("-hide_banner")
     /\ a[n - 1] = Arg("-loglevel") /\ a[n] = Arg(cmd.ffmpeg.log_level)

\* C21: every probe's command is -i <file>, the filter arguments of its
\* family, -f null -, then -hide_banner exactly when the flag is set, then
\* -loglevel <level> last; the high-pass probes use 16000, 18000 and 20000.
C21_ArgumentTemplate ==
  \A k \in 1..NumProbes : cmd.args[k] # <<>> => FollowsTemplate(k, cmd.args[k])

\* all five commands built with the banner flag off
C21_Witness ==
  /\ ~cmd.ffmpeg.hide_banner
  /\ \A k \in 1..NumProbes : cmd.args[k] # <<>>
  /\ cmd.args[5][4] = <<"highpass=f=", "2", "0", "0", "0", "0", ",astats=metadata=1">>

\* what the claim lists as the invalid configurations
ListedInvalid(config) ==
  \/ Len(config.supported_extensions) = 0
  \/ config.num_threads = Some(0)
  \/ f64_ge(config.quality_thresholds.lra_poor_max, config.quality_thresholds.lra_low_max)
  \/ f64_ge(config.quality_thresholds.peak_good_db, config.quality_thresholds.peak_medium_db)

\* C22: validate returns an error exactly for an empty extension list, zero
\* threads, lra_poor_max >= lra_low_max or peak_good_db >= peak_medium_db;
\* the default configuration is valid; AudioAnalyzer::new succeeds exactly
\* when validate does, and the analyzer it gives is uninitialized.
C22_ValidateExactlyListed ==
  /\ cfg.validateDone =>
       /\ cfg.valid = "err" <=> ListedInvalid(cfg.config)
       /\ cfg.config = DefaultConfig => cfg.valid = "ok"
  /\ cfg.newDone =>
       /\ cfg.analyzer.ok <=> ~ListedInvalid(cfg.config)
       /\ ~is_initialized(cfg.analyzer)
  /\ (cfg.validateDone /\ cfg.newDone) => (cfg.analyzer.ok <=> cfg.valid = "ok")

\* a configuration rejected for its zero threads alone, by validate and by new
C22_Witness ==
  /\ cfg.validateDone /\ cfg.newDone
  /\ cfg.config = [DefaultConfig EXCEPT !.num_threads = Some(0)]
  /\ cfg.valid = "err"
  /\ ~cfg.analyzer.ok

\* what a flat join of n tasks over the probes pr of a file has returned: it
\* needs one probe per task, it is pending until every task has finished, and
\* then it is the record built from their results
FlatJoin(n, path, pr) ==
  IF Len(pr) = n /\ \A k \in 1..Len(pr) : pr[k].st = "done"
  THEN RetOk(<<BuildMetrics(path, pr)>>)
  ELSE RetPending

Analyzed(p) == \E i \in 1..Len(paths) : paths[i] = p /\ slot[i].st = "some"

C25_NoFilesWarnsAndSucceeds ==
  (cli.found = 0 /\ cli.pc = "done") =>
    /\ cli.warned
    /\ cli.result = "ok"
    /\ cli.file.data # Content(cli.results)
    /\ ~cli.invoked

\* a configuration file was given and loaded
FileLoaded == app.matches.config.given /\ app.matches.config.readable

\* C26: the command line overrides the configuration file, the environment
\* has the lowest priority and never replaces a verbose or thread value that
\* came from a flag or from the loaded file, and --verbose without --quiet
\* gives verbose and show_progress both true.
C26_FlagsOverFileOverEnvironment ==
  (app.done /\ app.result.ok) =>
    LET config == app.result.config
        file == app.matches.config.config
    IN /\ app.matches.quiet => ~config.verbose /\ ~config.show_progress
       /\ (app.matches.verbose /\ ~app.matches.quiet) =>
            config.verbose /\ config.show_progress
       /\ app.matches.threads.ok => config.num_threads = app.matches.threads
       /\ (FileLoaded /\ ~app.matches.verbose /\ ~app.matches.quiet) =>
            config.verbose = file.verbose
       /\ (FileLoaded /\ ~app.matches.threads.ok /\ file.num_threads.ok) =>
            config.num_threads = file.num_threads

\* what holds of the code: the flags win over file and environment, and the
\* environment wins over the file
C26_FlagsOverEnvironmentOverFile ==
  (app.done /\ app.result.ok) =>
    LET config == app.result.config
        file == app.matches.config.config
    IN /\ app.matches.quiet => ~config.verbose /\ ~config.show_progress
       /\ (app.matches.verbose /\ ~app.matches.quiet) =>
            config.verbose /\ config.show_progress
       /\ app.matches.threads.ok => config.num_threads = app.matches.threads
       /\ (~app.matches.verbose /\ ~app.matches.quiet /\ app.env.verbose.ok) =>
            (config.verbose <=> app.env.verbose.v \in
               {<<"t", "r", "u", "e">>, <<"T", "R", "U", "E">>, <<"1">>})
       /\ (~app.matches.threads.ok /\ app.env.threads = Some(<<"8">>)) =>
            config.num_threads = Some(8)

\* C27: on an analyzer that was never initialized every analyze_file call
\* returns the dependency error before the metadata is read or a probe is
\* launched, and analyze_files over N paths returns Ok with an empty
\* collection after N diagnostics, never an error for the batch.
C27_UninitializedBatchIsEmptyOk ==
  ~deps =>
    /\ ret.st # "err"
    /\ \A i \in 1..Len(paths) :
         /\ meta[i] = "unread"
         /\ \A k \in 1..NumProbes : probe[i][k] = ProbeIdle
         /\ slot[i].st = "none" => FileDiagnostics(i) # {}
    /\ \A j \in 1..Len(diag) : diag[j].kind = "file" /\ diag[j].detail = "dependency"
    /\ ret.st = "ok" =>
         /\ ret.recs = <<>>
         /\ Len(diag) = Len(paths)
         /\ \A i \in 1..Len(paths) :
              slot[i].st = "none" /\ Cardinality(FileDiagnostics(i)) = 1

\* two paths given to an analyzer that was never initialized
C27_Witness ==
  /\ ~deps
  /\ Len(paths) = 2
  /\ ret = RetOk(<<>>)
  /\ Len(diag) = 2
  /\ processed_count = 2

\* is_initialized answers true exactly when an earlier initialize_dependencies
\* call returned Ok, and a call that failed has left the analyzer uninitialized
InitializedIffSucceeded ==
  /\ ana.asked => (ana.answer <=> ana.succeeded)
  /\ (ana.op = "initialize_dependencies" /\ ana.result = "err") =>
       ~is_initialized(ana.analyzer)

\* once initialized the analyzer keeps its handle: a further
\* initialize_dependencies returns Ok, and no call changes or resets it
HandleKept ==
  is_initialized(ana.analyzer) =>
    /\ ana'.analyzer = ana.analyzer
    /\ ana'.op = "initialize_dependencies" => ana'.result = "ok"

\* C28: over any sequence of calls is_initialized is true exactly when an
\* earlier initialize_dependencies succeeded; a failed call leaves the
\* analyzer uninitialized, a call on an initialized analyzer returns Ok and
\* leaves the tool paths unchanged, and no operation resets the state.
C28_InitializedOnceAndForAll ==
  []InitializedIffSucceeded /\ [][HandleKept]_vars

\* a failed call, then a successful one, then a further call that returned Ok
\* and left the handle of the second call in place
C28_Witness ==
  /\ ana.calls = 3
  /\ ana.op = "initialize_dependencies"
  /\ ana.result = "ok"
  /\ ana.analyzer.dependencies = Handle(2)
  /\ ana.asked /\ ana.answer

\* C29: whenever the peak/RMS probe returns Ok the returned AudioStats has
\* data, at least one of peak_db and rms_db being present; a text from which
\* neither value can be obtained gives a parse error.
C29_OkStatsHaveData ==
  (ptext.kind = "stats" /\ pout.st = "done") =>
    /\ pout.stats.ok => has_data(pout.stats)
    /\ (~ParseStats(ptext.text).peak_db.ok /\ ~ParseStats(ptext.text).rms_db.ok)
         => pout.stats = ErrStats("parse")

\* C30: when every external process exits, analyze_files returns for every
\* input list and every pool of at least one worker: the nested fan-out of a
\* file, on the pool that also runs the fan-out over the files, never leaves
\* a join waiting for a task that no worker runs.
C30_AnalyzeFilesReturns == <>(ret.st # "pending")

\* a pool of one worker has run every probe of every file of a full list
C30_Witness ==
  /\ Len(deque) = 1
  /\ Len(paths) = MaxFiles
  /\ ret.st = "ok"
  /\ Len(ret.recs) = MaxFiles
  /\ \A i \in 1..MaxFiles : \A k \in 1..NumProbes : probe[i][k].st = "done"

====
